---------------------------- MODULE Spec2Model ----------------------------
(***************************************************************************)
(* Giveaway bot (src/src/index.ts, second revision, lines 582-1347):       *)
(* the registry activeGiveaways, the entry ledgers, the admin commands,    *)
(* the reaction and tip handlers and the periodic sweep.                   *)
(*                                                                         *)
(* Handlers are JavaScript async functions on one event loop: the code     *)
(* between two awaits runs atomically and is one action here.  A handler   *)
(* that still touches state after an await leaves a continuation record    *)
(* in `inflight`; a later action resumes it, with the awaited send         *)
(* having succeeded or thrown.  The first await of every command handler   *)
(* (hasAdminPermission) reads no state before it, so it is folded into     *)
(* the arrival of the event.                                               *)
(*                                                                         *)
(* Units: time in minutes (the code uses milliseconds; every duration is   *)
(* a whole number of minutes), USD amounts in cents, token amounts in      *)
(* units of 10^-6 ETH (TLC integers are 32 bits wide, 10^18 does not fit). *)
(***************************************************************************)
EXTENDS Integers, Sequences, FiniteSets, TLC

(* ------------------------------ bounds --------------------------------- *)
MaxTime == 1
MaxInflight == 1
MaxCredits == 2
MaxDurationLen == 3
MaxLedgerEntries == 9

(* ------------------------- enumerated inputs --------------------------- *)
Channels == {"c1"}
Users == {"u1", "u2"}
Actors == {"u1"}
Prizes == {"100 USDC", "1 ETH"}
(* eventIds: the template message last stored for the user, the          *)
(* announcement of the giveaway object now in the registry, any other      *)
(* message, and undefined                                                  *)
NoMessage == "undefined"
Template == "template"
Announcement == "announcement"
OtherMessage == "other"
ReplyIds == {Template, OtherMessage, NoMessage}
ReactedIds == {Announcement, OtherMessage}
Gift == "gift"
Reactions == {Gift, "thumbsup"}
BotId == "bot"
Receivers == {BotId, "u1"}

Digits == {"0", "1", "2", "3", "4", "5", "6", "7", "8", "9"}
NaN == -1000000
(* the IEEE-754 value Infinity, which parseFloat reads from "Infinity" *)
Infinity == 2000000000
InfinityLiteral == <<"I", "n", "f", "i", "n", "i", "t", "y">>

(* Map<K, V> as a function whose DOMAIN is the key set *)
EmptyMap == <<>>
MapHas(m, k) == k \in DOMAIN m
MapGet(m, k, d) == IF k \in DOMAIN m THEN m[k] ELSE d
MapSet(m, k, v) == [x \in (DOMAIN m) \cup {k} |-> IF x = k THEN v ELSE m[x]]
MapDelete(m, k) == [x \in (DOMAIN m) \ {k} |-> m[x]]

Min(a, b) == IF a < b THEN a ELSE b

VARIABLES
    activeGiveaways,        \* Map channelId -> Giveaway
    giveawayCreationState,  \* Map userId -> [channelId, templateMessageId]
    ethPriceUsd,            \* cents per ETH
    globalTipEntryFeeUsd,   \* cents per entry
    now,                    \* new Date(), minutes
    inflight,               \* continuations of handlers suspended at an await
    credits                 \* entry-crediting events so far (bounds the run)

vars == <<activeGiveaways, giveawayCreationState, ethPriceUsd,
          globalTipEntryFeeUsd, now, inflight, credits>>

(* --------------------------- argument parsing -------------------------- *)
(* Strings are sequences of one-character strings.                          *)
DigitVal(c) ==
    CASE c = "0" -> 0 [] c = "1" -> 1 [] c = "2" -> 2 [] c = "3" -> 3
      [] c = "4" -> 4 [] c = "5" -> 5 [] c = "6" -> 6 [] c = "7" -> 7
      [] c = "8" -> 8 [] c = "9" -> 9

RECURSIVE DigitPrefixLen(_, _)
(* number of leading digits of s from position i on *)
DigitPrefixLen(s, i) ==
    IF i > Len(s) \/ s[i] \notin Digits THEN 0
    ELSE 1 + DigitPrefixLen(s, i + 1)

RECURSIVE DigitsValue(_, _, _)
(* value of the n digits of s that start at position i *)
DigitsValue(s, i, n) ==
    IF n = 0 THEN 0
    ELSE DigitsValue(s, i, n - 1) * 10 + DigitVal(s[i + n - 1])

(* parseInt(str): optional sign, then the leading digits; NaN without any *)
parseInt(s) ==
    LET neg  == Len(s) > 0 /\ s[1] = "-"
        from == IF neg THEN 2 ELSE 1
        n    == DigitPrefixLen(s, from)
    IN  IF n = 0 THEN NaN
        ELSE (IF neg THEN -1 ELSE 1) * DigitsValue(s, from, n)

(* parseFloat(str), in hundredths: optional sign, then "Infinity", or      *)
(* digits, optional "." and digits; the model keeps two decimals.          *)
parseFloat(s) ==
    LET neg  == Len(s) > 0 /\ s[1] = "-"
        from == IF neg THEN 2 ELSE 1
        inf  == /\ Len(s) >= from + Len(InfinityLiteral) - 1
                /\ SubSeq(s, from, from + Len(InfinityLiteral) - 1) = InfinityLiteral
        n    == DigitPrefixLen(s, from)
        dot  == from + n <= Len(s) /\ s[from + n] = "."
        f    == IF dot THEN DigitPrefixLen(s, from + n + 1) ELSE 0
        ip   == DigitsValue(s, from, n)
        d1   == IF f >= 1 THEN DigitVal(s[from + n + 1]) ELSE 0
        d2   == IF f >= 2 THEN DigitVal(s[from + n + 2]) ELSE 0
    IN  IF inf THEN (IF neg THEN -1 ELSE 1) * Infinity
        ELSE IF n = 0 /\ f = 0 THEN NaN
        ELSE (IF neg THEN -1 ELSE 1) * (ip * 100 + d1 * 10 + d2)

isNaN(x) == x = NaN

(* the pattern without its i flag *)
durationMatch_caseSensitive(s) ==
    /\ Len(s) >= 2
    /\ \A i \in 1 .. (Len(s) - 1) : s[i] \in Digits
    /\ s[Len(s)] \in {"h", "d", "m"}

(* durationStr.match(/^(\d+)([hdm])$/i) *)
durationMatch(s) ==
    /\ Len(s) >= 2
    /\ \A i \in 1 .. (Len(s) - 1) : s[i] \in Digits
    /\ s[Len(s)] \in {"h", "d", "m", "H", "D", "M"}

toLowerCase(c) ==
    CASE c = "H" -> "h" [] c = "D" -> "d" [] c = "M" -> "m" [] OTHER -> c

(* msDuration of a matching duration string, in minutes *)
msDuration(s) ==
    LET durationValue == DigitsValue(s, 1, Len(s) - 1)
        durationUnit  == toLowerCase(s[Len(s)])
    IN  IF durationUnit = "m" THEN durationValue
        ELSE IF durationUnit = "h" THEN durationValue * 60
        ELSE IF durationUnit = "d" THEN durationValue * 24 * 60
        ELSE 0

(* --------------------------- currency ---------------------------------- *)
WeiPerEth == 1000000

(* ethAmount.toString() is in exponent notation below 1e-6, and is        *)
(* "Infinity" or "NaN" for an infinite usdAmount: parseEther rejects these  *)
(* with an exception.  A finite usdAmount divided by Infinity is 0, whose   *)
(* string "0" parseEther accepts.                                          *)
usdToWeiThrows(usdAmount, price) ==
    IF usdAmount = Infinity THEN TRUE
    ELSE IF price = Infinity THEN FALSE
    ELSE usdAmount * WeiPerEth < price

usdToWei(usdAmount, price) ==
    IF price = Infinity THEN 0 ELSE (usdAmount * WeiPerEth) \div price

(* ----------------------------- ledger ---------------------------------- *)
(* addReactionEntry that stores the count it read, without adding *)
addReactionEntry_storesOld(reg, channelId, userId, count) ==
    IF ~MapHas(reg, channelId) \/ ~reg[channelId].isActive THEN reg
    ELSE LET giveaway == reg[channelId]
             currentEntries == MapGet(giveaway.reactionEntries, userId, 0)
         IN  [reg EXCEPT ![channelId].reactionEntries =
                 MapSet(giveaway.reactionEntries, userId, currentEntries)]

(* addReactionEntry: the registry after the call *)
addReactionEntry(reg, channelId, userId, count) ==
    IF ~MapHas(reg, channelId) \/ ~reg[channelId].isActive THEN reg
    ELSE LET giveaway == reg[channelId]
             currentEntries == MapGet(giveaway.reactionEntries, userId, 0)
         IN  [reg EXCEPT ![channelId].reactionEntries =
                 MapSet(giveaway.reactionEntries, userId, currentEntries + count)]

(* addTipEntry whose remainingCap comes from a count read before the other *)
(* tips of the participant were written (the stale read of an interrupted  *)
(* read-compare-write)                                                     *)
addTipEntry_staleRead(reg, channelId, userId, count) ==
    IF ~MapHas(reg, channelId) \/ ~reg[channelId].isActive
    THEN [reg |-> reg, ret |-> 0]
    ELSE LET giveaway == reg[channelId]
             currentTipEntries == MapGet(giveaway.tipEntries, userId, 0)
             remainingCap == giveaway.tipEntryCap
             entriesToAdd == Min(count, remainingCap)
         IN  IF remainingCap <= 0 THEN [reg |-> reg, ret |-> 0]
             ELSE [reg |-> [reg EXCEPT ![channelId].tipEntries =
                               MapSet(giveaway.tipEntries, userId,
                                      currentTipEntries + entriesToAdd)],
                   ret |-> entriesToAdd]

(* addTipEntry that adds the whole count, not Math.min(count, remainingCap) *)
addTipEntry_uncapped(reg, channelId, userId, count) ==
    IF ~MapHas(reg, channelId) \/ ~reg[channelId].isActive
    THEN [reg |-> reg, ret |-> 0]
    ELSE LET giveaway == reg[channelId]
             currentTipEntries == MapGet(giveaway.tipEntries, userId, 0)
             remainingCap == giveaway.tipEntryCap - currentTipEntries
         IN  IF remainingCap <= 0 THEN [reg |-> reg, ret |-> 0]
             ELSE [reg |-> [reg EXCEPT ![channelId].tipEntries =
                               MapSet(giveaway.tipEntries, userId,
                                      currentTipEntries + count)],
                   ret |-> count]

(* addTipEntry: the registry after the call and the returned count *)
addTipEntry(reg, channelId, userId, count) ==
    IF ~MapHas(reg, channelId) \/ ~reg[channelId].isActive
    THEN [reg |-> reg, ret |-> 0]
    ELSE LET giveaway == reg[channelId]
             currentTipEntries == MapGet(giveaway.tipEntries, userId, 0)
             remainingCap == giveaway.tipEntryCap - currentTipEntries
             entriesToAdd == Min(count, remainingCap)
         IN  IF remainingCap <= 0 THEN [reg |-> reg, ret |-> 0]
             ELSE [reg |-> [reg EXCEPT ![channelId].tipEntries =
                               MapSet(giveaway.tipEntries, userId,
                                      currentTipEntries + entriesToAdd)],
                   ret |-> entriesToAdd]

(* getTotalEntries that forgets the tip entries *)
getTotalEntries_reactionsOnly(giveaway, userId) ==
    MapGet(giveaway.reactionEntries, userId, 0)

getTotalEntries(giveaway, userId) ==
    MapGet(giveaway.reactionEntries, userId, 0)
        + MapGet(giveaway.tipEntries, userId, 0)

allUsers(giveaway) ==
    (DOMAIN giveaway.reactionEntries) \cup (DOMAIN giveaway.tipEntries)

(* ----------------------------- lottery --------------------------------- *)
UserOrder == <<"u1", "u2">>

RECURSIVE Repeat(_, _)
Repeat(x, n) == IF n <= 0 THEN <<>> ELSE <<x>> \o Repeat(x, n - 1)

RECURSIVE weightedFrom(_, _)
(* the pool built by the loop over allUsers, from position i of the        *)
(* iteration order on                                                      *)
weightedFrom(giveaway, i) ==
    IF i > Len(UserOrder) THEN <<>>
    ELSE (IF UserOrder[i] \in allUsers(giveaway)
          THEN Repeat(UserOrder[i], getTotalEntries(giveaway, UserOrder[i]))
          ELSE <<>>) \o weightedFrom(giveaway, i + 1)

(* a pool that holds every participant once, whatever their entries *)
weightedEntries_unweighted(giveaway) ==
    SelectSeq(UserOrder, LAMBDA u : u \in allUsers(giveaway))

weightedEntries(giveaway) == weightedFrom(giveaway, 1)

NoWinner == "null"

(* selectWinner that draws among all users of the channel *)
selectWinner_anyUser(giveaway) ==
    IF allUsers(giveaway) = {} THEN {NoWinner}
    ELSE {UserOrder[randomIndex] : randomIndex \in 1 .. Len(UserOrder)}

(* selectWinner: the values the call can return, one per value of          *)
(* Math.random()                                                           *)
selectWinner(giveaway) ==
    IF allUsers(giveaway) = {} THEN {NoWinner}
    ELSE IF Len(weightedEntries(giveaway)) = 0 THEN {NoWinner}
    ELSE {weightedEntries(giveaway)[randomIndex] :
              randomIndex \in 1 .. Len(weightedEntries(giveaway))}

(* ------------------------- inputs of the events ------------------------ *)
NoPrize == ""
Msg(prize, duration, cap) == [prize |-> prize, duration |-> duration, cap |-> cap]
Messages ==
    {Msg("100 USDC", <<"1", "m">>, <<>>),
     Msg("1 ETH", <<"0", "M">>, <<"2">>),
     Msg("100 USDC", <<"1", "w">>, <<>>),
     Msg("1 ETH", <<"1", "m">>, <<"0">>)}
NoMessageBody == Msg(NoPrize, <<>>, <<>>)
CapArgs == {<<"1">>, <<"0">>}
FeeArgs == {<<"0", ".", "0", "1">>, <<"x">>}
PriceArgs == {<<"2", "0", "0", "0", "0">>, InfinityLiteral, <<>>}
TipAmounts == {165, 166, 2490}
DefaultCap == 10

(* ---------------------------- continuations ---------------------------- *)
(* What a suspended handler holds: its event, the parsed reply (onMessage) *)
(* or the winner announcement being sent (giveaway-end), and whether the   *)
(* giveaway object it created is still the one in the registry.           *)
NoResult == [winner |-> "null", winnerEntries |-> 0, totalEntries |-> 0,
             participants |-> 0]

Cont(kind, channelId, userId, msg, result) ==
    [kind |-> kind, channelId |-> channelId, userId |-> userId,
     attached |-> TRUE, msg |-> msg, result |-> result]

CanSuspend(h) == Cardinality(inflight) < MaxInflight /\ h \notin inflight

(* the registry entry of channelId is replaced or deleted: the object a   *)
(* suspended createGiveaway holds is no longer the registered one         *)
detach(conts, channelId) ==
    {IF h.kind = "announce" /\ h.channelId = channelId
     THEN [h EXCEPT !.attached = FALSE] ELSE h : h \in conts}

(* -------------------------------- Init --------------------------------- *)
Init ==
    /\ activeGiveaways = EmptyMap
    /\ giveawayCreationState = EmptyMap
    /\ ethPriceUsd = 300000
    /\ globalTipEntryFeeUsd = 50
    /\ now = 0
    /\ inflight = {}
    /\ credits = 0

(* ------------------------------- clock --------------------------------- *)
Tick ==
    /\ now < MaxTime
    /\ now' = now + 1
    /\ UNCHANGED <<activeGiveaways, giveawayCreationState, ethPriceUsd,
                   globalTipEntryFeeUsd, inflight, credits>>

(* a sweep whose comparison with endTime is inverted *)
sweep_inverted(reg, t) ==
    [c \in DOMAIN reg |->
        IF reg[c].isActive /\ t < reg[c].endTime
        THEN [reg[c] EXCEPT !.isActive = FALSE]
        ELSE reg[c]]

(* a sweep that deletes the expired giveaways from the registry *)
sweep_removes(reg, t) ==
    [c \in {d \in DOMAIN reg : ~(reg[d].isActive /\ t > reg[d].endTime)} |-> reg[c]]

(* setInterval callback *)
sweep(reg, t) ==
    [c \in DOMAIN reg |->
        IF reg[c].isActive /\ t > reg[c].endTime
        THEN [reg[c] EXCEPT !.isActive = FALSE]
        ELSE reg[c]]

Sweep ==
    /\ activeGiveaways' = sweep(activeGiveaways, now)
    /\ UNCHANGED <<giveawayCreationState, ethPriceUsd, globalTipEntryFeeUsd,
                   now, inflight, credits>>

(* --------------------------- createGiveaway ---------------------------- *)
(* createGiveaway without the check for an existing active giveaway *)
createGiveaway_unchecked(reg, channelId, prize, durationStr, tipEntryCap, fee, price, t) ==
    IF ~durationMatch(durationStr)
    THEN [reg |-> reg, code |-> "InvalidDuration"]
    ELSE IF usdToWeiThrows(fee, price)
    THEN [reg |-> reg, code |-> "Threw"]
    ELSE [reg |-> MapSet(reg, channelId,
                    [prize |-> prize,
                     startTime |-> t,
                     endTime |-> t + msDuration(durationStr),
                     tipEntryFee |-> usdToWei(fee, price),
                     tipEntryCap |-> tipEntryCap,
                     tipEntries |-> EmptyMap,
                     reactionEntries |-> EmptyMap,
                     isActive |-> TRUE,
                     announcementMessageId |-> NoMessage]),
          code |-> "Created"]

(* createGiveaway up to its first await: the registry after it and the     *)
(* outcome                                                                 *)
createGiveaway(reg, channelId, prize, durationStr, tipEntryCap, fee, price, t) ==
    IF ~durationMatch(durationStr)
    THEN [reg |-> reg, code |-> "InvalidDuration"]
    ELSE IF MapHas(reg, channelId) /\ reg[channelId].isActive
    THEN [reg |-> reg, code |-> "AlreadyActive"]
    ELSE IF usdToWeiThrows(fee, price)
    THEN [reg |-> reg, code |-> "Threw"]
    ELSE [reg |-> MapSet(reg, channelId,
                    [prize |-> prize,
                     startTime |-> t,
                     endTime |-> t + msDuration(durationStr),
                     tipEntryFee |-> usdToWei(fee, price),
                     tipEntryCap |-> tipEntryCap,
                     tipEntries |-> EmptyMap,
                     reactionEntries |-> EmptyMap,
                     isActive |-> TRUE,
                     announcementMessageId |-> NoMessage]),
          code |-> "Created"]

(* --------------------- /giveaway-create and replies -------------------- *)
(* onSlashCommand('giveaway-create') up to the send of the template *)
giveawayCreateCode(reg, channelId, isAdmin) ==
    IF ~isAdmin THEN "NotAuthorized"
    ELSE IF MapHas(reg, channelId) /\ reg[channelId].isActive THEN "AlreadyActive"
    ELSE "Template"

GiveawayCreate(channelId, userId, isAdmin) ==
    /\ IF giveawayCreateCode(activeGiveaways, channelId, isAdmin) = "Template"
       THEN /\ CanSuspend(Cont("template", channelId, userId, NoMessageBody, NoResult))
            /\ inflight' = inflight \cup
                   {Cont("template", channelId, userId, NoMessageBody, NoResult)}
       ELSE UNCHANGED inflight
    /\ UNCHANGED <<activeGiveaways, giveawayCreationState, ethPriceUsd,
                   globalTipEntryFeeUsd, now, credits>>

(* ... and after it: the template's eventId is remembered for the user *)
TemplateSent(h, ok) ==
    /\ h \in inflight
    /\ h.kind = "template"
    /\ inflight' = inflight \ {h}
    /\ giveawayCreationState' =
          IF ok
          THEN MapSet(giveawayCreationState, h.userId,
                      [channelId |-> h.channelId, templateMessageId |-> Template])
          ELSE giveawayCreationState
    /\ UNCHANGED <<activeGiveaways, ethPriceUsd, globalTipEntryFeeUsd, now, credits>>

(* onMessage up to `await handler.hasAdminPermission`.  A reply is posted  *)
(* in the channel of the message it replies to.                            *)
onMessageAccepts(state, userId, replyId) ==
    /\ MapHas(state, userId)
    /\ replyId # NoMessage
    /\ replyId = state[userId].templateMessageId

OnMessage(userId, replyId, message) ==
    /\ IF onMessageAccepts(giveawayCreationState, userId, replyId)
       THEN /\ CanSuspend(Cont("reply", giveawayCreationState[userId].channelId,
                               userId, message, NoResult))
            /\ inflight' = inflight \cup
                   {Cont("reply", giveawayCreationState[userId].channelId,
                         userId, message, NoResult)}
       ELSE UNCHANGED inflight
    /\ UNCHANGED <<activeGiveaways, giveawayCreationState, ethPriceUsd,
                   globalTipEntryFeeUsd, now, credits>>

(* the labeled patterns: Duration: (\d+[hdm]) and Max Entries: (\d+) *)
extractDuration(message) ==
    IF durationMatch(message.duration) THEN message.duration ELSE <<>>

extractCap(message) ==
    IF \A i \in 1 .. Len(message.cap) : message.cap[i] \in Digits
    THEN message.cap ELSE <<>>

(* onMessage after the admin check: the outcome of the reply, with         *)
(* createGiveaway up to its first await                                    *)
onMessageResult(reg, channelId, message, isAdmin, fee, price, t) ==
    LET prize == message.prize
        durationStr == extractDuration(message)
        capStr == extractCap(message)
        tipEntryCap == IF capStr # <<>> THEN parseInt(capStr) ELSE DefaultCap
    IN  IF ~isAdmin THEN [reg |-> reg, code |-> "NotAuthorized"]
        ELSE IF prize = NoPrize \/ durationStr = <<>>
        THEN [reg |-> reg, code |-> "Unparsed"]
        ELSE IF isNaN(tipEntryCap) \/ tipEntryCap <= 0
        THEN [reg |-> reg, code |-> "InvalidCap"]
        ELSE createGiveaway(reg, channelId, prize, durationStr, tipEntryCap,
                            fee, price, t)

OnMessageResume(h, isAdmin) ==
    /\ h \in inflight
    /\ h.kind = "reply"
    /\ LET r == onMessageResult(activeGiveaways, h.channelId, h.msg, isAdmin,
                                globalTipEntryFeeUsd, ethPriceUsd, now)
           rest == inflight \ {h}
       IN  /\ giveawayCreationState' =
                  IF r.code = "Unparsed" THEN giveawayCreationState
                  ELSE MapDelete(giveawayCreationState, h.userId)
           /\ activeGiveaways' = r.reg
           /\ inflight' =
                  IF r.code = "Created"
                  THEN detach(rest, h.channelId) \cup
                           {Cont("announce", h.channelId, h.userId,
                                 NoMessageBody, NoResult)}
                  ELSE rest
    /\ UNCHANGED <<ethPriceUsd, globalTipEntryFeeUsd, now, credits>>

(* an announcement whose arrival also marks the giveaway active again *)
AnnouncementSent_reactivates(h, ok) ==
    /\ h \in inflight
    /\ h.kind = "announce"
    /\ inflight' = inflight \ {h}
    /\ activeGiveaways' =
          IF ok /\ h.attached
          THEN [activeGiveaways EXCEPT
                   ![h.channelId].announcementMessageId = Announcement,
                   ![h.channelId].isActive = TRUE]
          ELSE activeGiveaways
    /\ UNCHANGED <<giveawayCreationState, ethPriceUsd, globalTipEntryFeeUsd,
                   now, credits>>

(* createGiveaway after its sends: the announcement's eventId is stored in *)
(* the giveaway object the call created, which the registry may no longer  *)
(* hold.  A send that throws ends the call.                                *)
AnnouncementSent(h, ok) ==
    /\ h \in inflight
    /\ h.kind = "announce"
    /\ inflight' = inflight \ {h}
    /\ activeGiveaways' =
          IF ok /\ h.attached
          THEN [activeGiveaways EXCEPT
                   ![h.channelId].announcementMessageId = Announcement]
          ELSE activeGiveaways
    /\ UNCHANGED <<giveawayCreationState, ethPriceUsd, globalTipEntryFeeUsd,
                   now, credits>>

(* createGiveaway called with any duration string, as a caller that does   *)
(* not filter the string first would                                       *)
DurationAlphabet == {"1", "2", "4", "h", "D", "m", "w", "."}
StringsOfLen(n) == [1 .. n -> DurationAlphabet]
DurationStrings ==
    UNION {StringsOfLen(n) : n \in 0 .. MaxDurationLen}
        \cup {<<"2", "4", "h">>, <<"2", "d">>, <<"x">>, <<"2", "4">>,
               <<"1", "w">>, <<"1", ".", "5", "h">>}

CreateGiveaway(channelId, userId, prize, durationStr) ==
    /\ LET r == createGiveaway(activeGiveaways, channelId, prize, durationStr,
                               DefaultCap, globalTipEntryFeeUsd, ethPriceUsd, now)
       IN  /\ activeGiveaways' = r.reg
           /\ IF r.code = "Created"
              THEN /\ CanSuspend(Cont("announce", channelId, userId,
                                      NoMessageBody, NoResult))
                   /\ inflight' = detach(inflight, channelId) \cup
                          {Cont("announce", channelId, userId,
                                NoMessageBody, NoResult)}
              ELSE UNCHANGED inflight
    /\ UNCHANGED <<giveawayCreationState, ethPriceUsd, globalTipEntryFeeUsd,
                   now, credits>>

(* ------------- /giveaway create <prize> <duration> [options] ----------- *)
(* The first revision of the bot (index.ts lines 1-580) creates directly   *)
(* from the arguments of the command.  args is the list of the command's   *)
(* words, "create" first; a word is a sequence of characters.              *)
CreateWord == <<"c", "r", "e", "a", "t", "e">>
FeePrefix == <<"f", "e", "e", ":">>
CapPrefix == <<"c", "a", "p", ":">>
startsWith(s, prefix) ==
    Len(s) >= Len(prefix) /\ SubSeq(s, 1, Len(prefix)) = prefix

(* arg.split(':')[1] of a word with one colon *)
afterColon(s) ==
    LET i == CHOOSE k \in 1 .. Len(s) : s[k] = ":" /\ \A j \in 1 .. (k - 1) : s[j] # ":"
    IN  SubSeq(s, i + 1, Len(s))

(* args.find(arg => arg.startsWith(prefix)), <<>> for undefined *)
findArg(args, prefix) ==
    IF \E i \in 1 .. Len(args) : startsWith(args[i], prefix)
    THEN args[CHOOSE i \in 1 .. Len(args) :
                 /\ startsWith(args[i], prefix)
                 /\ \A j \in 1 .. (i - 1) : ~startsWith(args[j], prefix)]
    ELSE <<>>

(* durationStr.match(/^(\d+)([hdm])$/), without the i flag *)
durationMatchDirect(s) ==
    /\ Len(s) >= 2
    /\ \A i \in 1 .. (Len(s) - 1) : s[i] \in Digits
    /\ s[Len(s)] \in {"h", "d", "m"}

(* the create branch of onSlashCommand('giveaway') up to its first await *)
giveawayDirect(reg, channelId, isAdmin, args, price, t) ==
    LET prize == SubSeq(args, 2, Len(args) - 1)
        durationStr == args[Len(args)]
        tipFeeArg == findArg(args, FeePrefix)
        tipFeeUsd == IF tipFeeArg # <<>> THEN parseFloat(afterColon(tipFeeArg))
                     ELSE 50
        capArg == findArg(args, CapPrefix)
        tipEntryCap == IF capArg # <<>> THEN parseInt(afterColon(capArg))
                       ELSE DefaultCap
    IN  IF ~isAdmin THEN [reg |-> reg, code |-> "NotAuthorized"]
        ELSE IF prize = <<>> THEN [reg |-> reg, code |-> "Usage"]
        ELSE IF ~durationMatchDirect(durationStr)
        THEN [reg |-> reg, code |-> "InvalidDuration"]
        ELSE IF MapHas(reg, channelId) /\ reg[channelId].isActive
        THEN [reg |-> reg, code |-> "AlreadyActive"]
        ELSE IF isNaN(tipFeeUsd) \/ usdToWeiThrows(tipFeeUsd, price)
        THEN [reg |-> reg, code |-> "Threw"]
        ELSE [reg |-> MapSet(reg, channelId,
                        [prize |-> prize,
                         startTime |-> t,
                         endTime |-> t + msDuration(durationStr),
                         tipEntryFee |-> usdToWei(tipFeeUsd, price),
                         tipEntryCap |-> tipEntryCap,
                         tipEntries |-> EmptyMap,
                         reactionEntries |-> EmptyMap,
                         isActive |-> TRUE,
                         announcementMessageId |-> NoMessage]),
              code |-> "Created"]

GiveawayDirect(channelId, userId, isAdmin, args) ==
    /\ LET r == giveawayDirect(activeGiveaways, channelId, isAdmin, args,
                               ethPriceUsd, now)
       IN  /\ activeGiveaways' = r.reg
           /\ IF r.code = "Created"
              THEN /\ CanSuspend(Cont("announce", channelId, userId,
                                      NoMessageBody, NoResult))
                   /\ inflight' = detach(inflight, channelId) \cup
                          {Cont("announce", channelId, userId,
                                NoMessageBody, NoResult)}
              ELSE UNCHANGED inflight
    /\ UNCHANGED <<giveawayCreationState, ethPriceUsd, globalTipEntryFeeUsd,
                   now, credits>>

(* the commands tried: a prize, a duration, and the options fee: and cap:  *)
(* after the duration (as documented) or before it                         *)
DirectPrizes == {<<<<"1">>, <<"E", "T", "H">>>>, <<<<"N", "F", "T">>>>}
DirectDurations == {<<"7", "d">>, <<"0", "m">>, <<"1", "m">>, <<"x">>}
FeeOption == FeePrefix \o <<"1", ".", "0", "0">>
CapOption == CapPrefix \o <<"2", "0">>
DirectOptions == {<<>>, <<FeeOption>>, <<CapOption>>, <<FeeOption, CapOption>>}
DirectArgs ==
    {<<CreateWord>> \o p \o <<d>> \o o :
        p \in DirectPrizes, d \in DirectDurations, o \in DirectOptions}
    \cup {<<CreateWord>> \o p \o o \o <<d>> :
        p \in DirectPrizes, d \in DirectDurations, o \in DirectOptions}
    \cup {<<CreateWord>>}

(* ---------------------------- /giveaway-end ---------------------------- *)
RECURSIVE reduceEntries(_, _)
(* Array.from(allUsers).reduce((sum, userId) => sum + getTotalEntries(..), 0), *)
(* from position i of the iteration order on                                *)
reduceEntries(giveaway, i) ==
    IF i > Len(UserOrder) THEN 0
    ELSE (IF UserOrder[i] \in allUsers(giveaway)
          THEN getTotalEntries(giveaway, UserOrder[i]) ELSE 0)
             + reduceEntries(giveaway, i + 1)

sumEntries(giveaway) == reduceEntries(giveaway, 1)

(* giveaway-end without the hasAdminPermission check *)
giveawayEndCode_noAdminCheck(reg, channelId, isAdmin) ==
    IF ~MapHas(reg, channelId) \/ ~reg[channelId].isActive
    THEN "NoActiveGiveaway"
    ELSE "Ended"

giveawayEndCode(reg, channelId, isAdmin) ==
    IF ~isAdmin THEN "NotAuthorized"
    ELSE IF ~MapHas(reg, channelId) \/ ~reg[channelId].isActive
    THEN "NoActiveGiveaway"
    ELSE "Ended"

(* a winner announcement that counts the winner's tip entries only *)
endResult_tipsOnly(giveaway, winner) ==
    [winner |-> winner,
     winnerEntries |-> MapGet(giveaway.tipEntries, winner, 0),
     totalEntries |-> sumEntries(giveaway),
     participants |-> Cardinality(allUsers(giveaway))]

(* the winner announcement, computed before it is sent *)
endResult(giveaway, winner) ==
    [winner |-> winner,
     winnerEntries |-> getTotalEntries(giveaway, winner),
     totalEntries |-> sumEntries(giveaway),
     participants |-> Cardinality(allUsers(giveaway))]

GiveawayEnd(channelId, userId, isAdmin) ==
    /\ IF giveawayEndCode(activeGiveaways, channelId, isAdmin) # "Ended"
       THEN UNCHANGED <<activeGiveaways, inflight>>
       ELSE LET giveaway == activeGiveaways[channelId]
            IN  /\ activeGiveaways' =
                       [activeGiveaways EXCEPT ![channelId].isActive = FALSE]
                /\ \E winner \in selectWinner(giveaway) :
                      IF winner = NoWinner
                      THEN UNCHANGED inflight
                      ELSE /\ CanSuspend(Cont("end", channelId, userId, NoMessageBody,
                                              endResult(giveaway, winner)))
                           /\ inflight' = inflight \cup
                                  {Cont("end", channelId, userId, NoMessageBody,
                                        endResult(giveaway, winner))}
    /\ UNCHANGED <<giveawayCreationState, ethPriceUsd, globalTipEntryFeeUsd,
                   now, credits>>

(* after the winner announcement: activeGiveaways.delete(channelId) *)
EndAnnounced(h, ok) ==
    /\ h \in inflight
    /\ h.kind = "end"
    /\ activeGiveaways' =
          IF ok THEN MapDelete(activeGiveaways, h.channelId) ELSE activeGiveaways
    /\ inflight' =
          IF ok THEN detach(inflight \ {h}, h.channelId) ELSE inflight \ {h}
    /\ UNCHANGED <<giveawayCreationState, ethPriceUsd, globalTipEntryFeeUsd,
                   now, credits>>

(* --------------------------- /giveaway-status -------------------------- *)
giveawayStatus(reg, channelId) ==
    IF ~MapHas(reg, channelId) \/ ~reg[channelId].isActive
    THEN "NoActiveGiveaway"
    ELSE "Status"

GiveawayStatus(channelId) ==
    /\ giveawayStatus(activeGiveaways, channelId) \in {"NoActiveGiveaway", "Status"}
    /\ UNCHANGED vars

(* ------------------------------ setters -------------------------------- *)
(* /giveaway-set-tip-fee: the new global fee, or the old one when the      *)
(* command is rejected                                                     *)
setTipFee(fee, isAdmin, feeArg) ==
    LET feeUsd == parseFloat(feeArg)
    IN  IF ~isAdmin THEN fee
        ELSE IF feeArg = <<>> THEN fee
        ELSE IF isNaN(feeUsd) \/ feeUsd <= 0 THEN fee
        ELSE feeUsd

(* a set-tip-fee that also re-prices the giveaways already registered *)
SetTipFee_retroactive(isAdmin, feeArg) ==
    /\ globalTipEntryFeeUsd' = setTipFee(globalTipEntryFeeUsd, isAdmin, feeArg)
    /\ activeGiveaways' =
          [c \in DOMAIN activeGiveaways |->
              IF usdToWeiThrows(globalTipEntryFeeUsd', ethPriceUsd)
              THEN activeGiveaways[c]
              ELSE [activeGiveaways[c] EXCEPT
                       !.tipEntryFee = usdToWei(globalTipEntryFeeUsd', ethPriceUsd)]]
    /\ UNCHANGED <<giveawayCreationState, ethPriceUsd, now, inflight, credits>>

SetTipFee(isAdmin, feeArg) ==
    /\ globalTipEntryFeeUsd' = setTipFee(globalTipEntryFeeUsd, isAdmin, feeArg)
    /\ UNCHANGED <<activeGiveaways, giveawayCreationState, ethPriceUsd, now,
                   inflight, credits>>

setCapCode(reg, channelId, isAdmin, capArg) ==
    LET cap == parseInt(capArg)
    IN  IF ~isAdmin THEN "NotAuthorized"
        ELSE IF capArg = <<>> THEN "Usage"
        ELSE IF isNaN(cap) \/ cap <= 0 THEN "InvalidNumber"
        ELSE IF ~MapHas(reg, channelId) \/ ~reg[channelId].isActive
        THEN "NoActiveGiveaway"
        ELSE "Updated"

(* a set-cap that updates the cap of every registered giveaway *)
SetCap_allChannels(channelId, isAdmin, capArg) ==
    /\ activeGiveaways' =
          IF setCapCode(activeGiveaways, channelId, isAdmin, capArg) = "Updated"
          THEN [c \in DOMAIN activeGiveaways |->
                   [activeGiveaways[c] EXCEPT !.tipEntryCap = parseInt(capArg)]]
          ELSE activeGiveaways
    /\ UNCHANGED <<giveawayCreationState, ethPriceUsd, globalTipEntryFeeUsd,
                   now, inflight, credits>>

SetCap(channelId, isAdmin, capArg) ==
    /\ activeGiveaways' =
          IF setCapCode(activeGiveaways, channelId, isAdmin, capArg) = "Updated"
          THEN [activeGiveaways EXCEPT ![channelId].tipEntryCap = parseInt(capArg)]
          ELSE activeGiveaways
    /\ UNCHANGED <<giveawayCreationState, ethPriceUsd, globalTipEntryFeeUsd,
                   now, inflight, credits>>

setEthPrice(oldPrice, isAdmin, priceArg) ==
    LET price == parseFloat(priceArg)
    IN  IF ~isAdmin THEN oldPrice
        ELSE IF priceArg = <<>> THEN oldPrice
        ELSE IF isNaN(price) \/ price <= 0 THEN oldPrice
        ELSE price

SetEthPrice(isAdmin, priceArg) ==
    /\ ethPriceUsd' = setEthPrice(ethPriceUsd, isAdmin, priceArg)
    /\ UNCHANGED <<activeGiveaways, giveawayCreationState, globalTipEntryFeeUsd,
                   now, inflight, credits>>

(* ----------------------------- onReaction ------------------------------ *)
(* onReaction and addReactionEntry without their isActive checks *)
onReaction_creditsInactive(reg, channelId, userId, messageId, reaction, t) ==
    IF reaction # Gift THEN [reg |-> reg, code |-> "Ignored"]
    ELSE IF ~MapHas(reg, channelId)
    THEN [reg |-> reg, code |-> "Ignored"]
    ELSE IF messageId # reg[channelId].announcementMessageId
    THEN [reg |-> reg, code |-> "Ignored"]
    ELSE IF t > reg[channelId].endTime
    THEN [reg |-> [reg EXCEPT ![channelId].isActive = FALSE], code |-> "Expired"]
    ELSE [reg |-> [reg EXCEPT ![channelId].reactionEntries =
                      MapSet(reg[channelId].reactionEntries, userId,
                             MapGet(reg[channelId].reactionEntries, userId, 0) + 1)],
          code |-> "EntryAdded"]

(* onReaction that compares with announcementMessageId only once the      *)
(* giveaway has one                                                        *)
onReaction_unlessAbsent(reg, channelId, userId, messageId, reaction, t) ==
    IF reaction # Gift THEN [reg |-> reg, code |-> "Ignored"]
    ELSE IF ~MapHas(reg, channelId) \/ ~reg[channelId].isActive
    THEN [reg |-> reg, code |-> "Ignored"]
    ELSE IF reg[channelId].announcementMessageId # NoMessage
            /\ messageId # reg[channelId].announcementMessageId
    THEN [reg |-> reg, code |-> "Ignored"]
    ELSE IF t > reg[channelId].endTime
    THEN [reg |-> [reg EXCEPT ![channelId].isActive = FALSE], code |-> "Expired"]
    ELSE [reg |-> addReactionEntry(reg, channelId, userId, 1),
          code |-> "EntryAdded"]

(* onReaction without the comparison with announcementMessageId *)
onReaction_anyMessage(reg, channelId, userId, messageId, reaction, t) ==
    IF reaction # Gift THEN [reg |-> reg, code |-> "Ignored"]
    ELSE IF ~MapHas(reg, channelId) \/ ~reg[channelId].isActive
    THEN [reg |-> reg, code |-> "Ignored"]
    ELSE IF t > reg[channelId].endTime
    THEN [reg |-> [reg EXCEPT ![channelId].isActive = FALSE], code |-> "Expired"]
    ELSE [reg |-> addReactionEntry(reg, channelId, userId, 1),
          code |-> "EntryAdded"]

(* onReaction without the `new Date() > giveaway.endTime` return *)
onReaction_noExpiry(reg, channelId, userId, messageId, reaction, t) ==
    IF reaction # Gift THEN [reg |-> reg, code |-> "Ignored"]
    ELSE IF ~MapHas(reg, channelId) \/ ~reg[channelId].isActive
    THEN [reg |-> reg, code |-> "Ignored"]
    ELSE IF messageId # reg[channelId].announcementMessageId
    THEN [reg |-> reg, code |-> "Ignored"]
    ELSE [reg |-> addReactionEntry(reg, channelId, userId, 1),
          code |-> "EntryAdded"]

(* the handler's outcome: the registry after it and the message it sends *)
onReaction(reg, channelId, userId, messageId, reaction, t) ==
    IF reaction # Gift THEN [reg |-> reg, code |-> "Ignored"]
    ELSE IF ~MapHas(reg, channelId) \/ ~reg[channelId].isActive
    THEN [reg |-> reg, code |-> "Ignored"]
    ELSE IF messageId # reg[channelId].announcementMessageId
    THEN [reg |-> reg, code |-> "Ignored"]
    ELSE IF t > reg[channelId].endTime
    THEN [reg |-> [reg EXCEPT ![channelId].isActive = FALSE], code |-> "Expired"]
    ELSE [reg |-> addReactionEntry(reg, channelId, userId, 1),
          code |-> "EntryAdded"]

OnReaction(channelId, userId, messageId, reaction) ==
    /\ LET r == onReaction(activeGiveaways, channelId, userId, messageId,
                           reaction, now)
       IN  /\ r.code = "EntryAdded" => credits < MaxCredits
           /\ credits' = IF r.code = "EntryAdded" THEN credits + 1 ELSE credits
           /\ activeGiveaways' = r.reg
    /\ UNCHANGED <<giveawayCreationState, ethPriceUsd, globalTipEntryFeeUsd,
                   now, inflight>>

(* -------------------------------- onTip -------------------------------- *)
(* onTip that rounds a tip's value up to the next whole entry *)
onTip_roundsUp(reg, channelId, senderAddress, receiverAddress, amount, t) ==
    IF receiverAddress # BotId
    THEN [reg |-> reg, code |-> "Ignored", entriesAdded |-> 0]
    ELSE IF ~MapHas(reg, channelId) \/ ~reg[channelId].isActive
    THEN [reg |-> reg, code |-> "Ignored", entriesAdded |-> 0]
    ELSE IF t > reg[channelId].endTime
    THEN [reg |-> [reg EXCEPT ![channelId].isActive = FALSE],
          code |-> "Expired", entriesAdded |-> 0]
    ELSE IF reg[channelId].tipEntryFee = 0
    THEN [reg |-> reg, code |-> "Threw", entriesAdded |-> 0]
    ELSE LET potentialEntries ==
                 (amount + reg[channelId].tipEntryFee - 1) \div reg[channelId].tipEntryFee
             r == addTipEntry(reg, channelId, senderAddress, potentialEntries)
         IN  IF potentialEntries < 1
             THEN [reg |-> reg, code |-> "TooSmall", entriesAdded |-> 0]
             ELSE [reg |-> r.reg,
                   code |-> IF r.ret = 0 THEN "CapReached" ELSE "Credited",
                   entriesAdded |-> r.ret]

(* onTip without the `potentialEntries < 1` return *)
onTip_noMinimum(reg, channelId, senderAddress, receiverAddress, amount, t) ==
    IF receiverAddress # BotId
    THEN [reg |-> reg, code |-> "Ignored", entriesAdded |-> 0]
    ELSE IF ~MapHas(reg, channelId) \/ ~reg[channelId].isActive
    THEN [reg |-> reg, code |-> "Ignored", entriesAdded |-> 0]
    ELSE IF t > reg[channelId].endTime
    THEN [reg |-> [reg EXCEPT ![channelId].isActive = FALSE],
          code |-> "Expired", entriesAdded |-> 0]
    ELSE IF reg[channelId].tipEntryFee = 0
    THEN [reg |-> reg, code |-> "Threw", entriesAdded |-> 0]
    ELSE LET potentialEntries == amount \div reg[channelId].tipEntryFee
             r == addTipEntry(reg, channelId, senderAddress, potentialEntries)
         IN  [reg |-> r.reg,
              code |-> IF r.ret = 0 THEN "CapReached" ELSE "Credited",
              entriesAdded |-> r.ret]

(* the handler's outcome: the registry after it, the message it sends and  *)
(* the number of entries addTipEntry returned                              *)
onTip(reg, channelId, senderAddress, receiverAddress, amount, t) ==
    IF receiverAddress # BotId
    THEN [reg |-> reg, code |-> "Ignored", entriesAdded |-> 0]
    ELSE IF ~MapHas(reg, channelId) \/ ~reg[channelId].isActive
    THEN [reg |-> reg, code |-> "Ignored", entriesAdded |-> 0]
    ELSE IF t > reg[channelId].endTime
    THEN [reg |-> [reg EXCEPT ![channelId].isActive = FALSE],
          code |-> "Expired", entriesAdded |-> 0]
    ELSE IF reg[channelId].tipEntryFee = 0
    THEN [reg |-> reg, code |-> "Threw", entriesAdded |-> 0]
    ELSE LET potentialEntries == amount \div reg[channelId].tipEntryFee
             r == addTipEntry(reg, channelId, senderAddress, potentialEntries)
         IN  IF potentialEntries < 1
             THEN [reg |-> reg, code |-> "TooSmall", entriesAdded |-> 0]
             ELSE [reg |-> r.reg,
                   code |-> IF r.ret = 0 THEN "CapReached" ELSE "Credited",
                   entriesAdded |-> r.ret]

OnTip(channelId, senderAddress, receiverAddress, amount) ==
    /\ LET r == onTip(activeGiveaways, channelId, senderAddress, receiverAddress,
                      amount, now)
       IN  /\ r.code = "Credited" => credits < MaxCredits
           /\ credits' = IF r.code = "Credited" THEN credits + 1 ELSE credits
           /\ activeGiveaways' = r.reg
    /\ UNCHANGED <<giveawayCreationState, ethPriceUsd, globalTipEntryFeeUsd,
                   now, inflight>>

(* ------------------------------- Next ---------------------------------- *)
Next ==
    \/ Tick
    \/ Sweep
    \/ \E c \in Channels, u \in Actors, a \in BOOLEAN : GiveawayCreate(c, u, a)
    \/ \E h \in inflight, ok \in BOOLEAN : TemplateSent(h, ok)
    \/ \E u \in Actors, r \in ReplyIds, m \in Messages :
          OnMessage(u, r, m)
    \/ \E h \in inflight, a \in BOOLEAN : OnMessageResume(h, a)
    \/ \E h \in inflight, ok \in BOOLEAN : AnnouncementSent(h, ok)
    \/ \E c \in Channels, u \in Actors, a \in BOOLEAN : GiveawayEnd(c, u, a)
    \/ \E h \in inflight, ok \in BOOLEAN : EndAnnounced(h, ok)
    \/ \E c \in Channels : GiveawayStatus(c)
    \/ \E a \in BOOLEAN, f \in FeeArgs : SetTipFee(a, f)
    \/ \E c \in Channels, a \in BOOLEAN, k \in CapArgs : SetCap(c, a, k)
    \/ \E a \in BOOLEAN, p \in PriceArgs : SetEthPrice(a, p)
    \/ \E c \in Channels, u \in Users, m \in ReactedIds, r \in Reactions :
          OnReaction(c, u, m, r)
    \/ \E c \in Channels, s \in Users, r \in Receivers, a \in TipAmounts :
          OnTip(c, s, r, a)

Spec == Init /\ [][Next]_vars

(* createGiveaway applied to every duration string of DurationStrings,     *)
(* with the end command to make room for the next giveaway                 *)
DurationNext ==
    \/ Tick
    \/ \E c \in Channels, u \in Actors, s \in DurationStrings :
          CreateGiveaway(c, u, "100 USDC", s)
    \/ \E h \in inflight, ok \in BOOLEAN : AnnouncementSent(h, ok)
    \/ \E c \in Channels, u \in Actors : GiveawayEnd(c, u, TRUE)

DurationSpec == Init /\ [][DurationNext]_vars

(* the direct create command of the first revision, with the clock, the   *)
(* announcement and the sweep                                              *)
DirectNext ==
    \/ Tick
    \/ Sweep
    \/ \E c \in Channels, u \in Actors, a \in BOOLEAN, args \in DirectArgs :
          GiveawayDirect(c, u, a, args)
    \/ \E h \in inflight, ok \in BOOLEAN : AnnouncementSent(h, ok)

DirectSpec == Init /\ [][DirectNext]_vars

(* the draw applied to every ledger of up to MaxLedgerEntries reaction     *)
(* entries and up to MaxLedgerEntries tip entries (within the cap) per     *)
(* participant: an Active giveaway holding that ledger is ended            *)
LedgerMaps(n) == UNION {[S -> 1 .. n] : S \in SUBSET Users}

LotteryInit ==
    /\ \E r \in LedgerMaps(MaxLedgerEntries),
          t \in LedgerMaps(Min(MaxLedgerEntries, DefaultCap)) :
          activeGiveaways =
             [c \in Channels |->
                 [prize |-> "100 USDC",
                  startTime |-> 0,
                  endTime |-> 1,
                  tipEntryFee |-> usdToWei(50, 300000),
                  tipEntryCap |-> DefaultCap,
                  tipEntries |-> t,
                  reactionEntries |-> r,
                  isActive |-> TRUE,
                  announcementMessageId |-> Announcement]]
    /\ giveawayCreationState = EmptyMap
    /\ ethPriceUsd = 300000
    /\ globalTipEntryFeeUsd = 50
    /\ now = 0
    /\ inflight = {}
    /\ credits = 0

LotteryNext ==
    \/ \E c \in Channels, u \in Actors : GiveawayEnd(c, u, TRUE)
    \/ \E h \in inflight, ok \in BOOLEAN : EndAnnounced(h, ok)

LotterySpec == LotteryInit /\ [][LotteryNext]_vars

(* a giveaway-end awaits the send of its winner announcement (it has set   *)
(* isActive = false and drawn the winner) while the admin's reply to a     *)
(* creation template awaits hasAdminPermission: the two handlers resume in *)
(* either order, with reactions arriving in between                        *)
EndRaceInit ==
    /\ \E c \in Channels, u \in Actors, m \in Messages :
       \E r \in {l \in LedgerMaps(2) : DOMAIN l # {}} :
          LET giveaway == [prize |-> "1 ETH",
                           startTime |-> 0,
                           endTime |-> 1,
                           tipEntryFee |-> usdToWei(50, 300000),
                           tipEntryCap |-> DefaultCap,
                           tipEntries |-> EmptyMap,
                           reactionEntries |-> r,
                           isActive |-> FALSE,
                           announcementMessageId |-> Announcement]
          IN  /\ activeGiveaways = [d \in {c} |-> giveaway]
              /\ giveawayCreationState =
                     [v \in {u} |-> [channelId |-> c, templateMessageId |-> Template]]
              /\ \E winner \in selectWinner(giveaway) :
                     inflight = {Cont("end", c, u, NoMessageBody,
                                      endResult(giveaway, winner)),
                                 Cont("reply", c, u, m, NoResult)}
    /\ ethPriceUsd = 300000
    /\ globalTipEntryFeeUsd = 50
    /\ now = 0
    /\ credits = 0

EndRaceNext ==
    \/ Tick
    \/ \E h \in inflight, a \in BOOLEAN : OnMessageResume(h, a)
    \/ \E h \in inflight, ok \in BOOLEAN : AnnouncementSent(h, ok)
    \/ \E h \in inflight, ok \in BOOLEAN : EndAnnounced(h, ok)
    \/ \E c \in Channels, u \in Users, m \in ReactedIds, r \in Reactions :
          OnReaction(c, u, m, r)

EndRaceSpec == EndRaceInit /\ [][EndRaceNext]_vars

(* two replies to the same creation template, with different texts, both   *)
(* await hasAdminPermission on a channel without a giveaway: they resume   *)
(* in either order, with the clock, the sweep, tips and reactions in       *)
(* between                                                                 *)
CreateRaceInit ==
    /\ \E c \in Channels, u \in Actors :
       \E m1 \in Messages : \E m2 \in Messages \ {m1} :
          /\ giveawayCreationState =
                 [v \in {u} |-> [channelId |-> c, templateMessageId |-> Template]]
          /\ inflight = {Cont("reply", c, u, m1, NoResult),
                         Cont("reply", c, u, m2, NoResult)}
    /\ activeGiveaways = EmptyMap
    /\ ethPriceUsd = 300000
    /\ globalTipEntryFeeUsd = 50
    /\ now = 0
    /\ credits = 0

CreateRaceNext ==
    \/ Tick
    \/ Sweep
    \/ \E h \in inflight, a \in BOOLEAN : OnMessageResume(h, a)
    \/ \E h \in inflight, ok \in BOOLEAN : AnnouncementSent(h, ok)
    \/ \E c \in Channels, u \in Users, m \in ReactedIds, r \in Reactions :
          OnReaction(c, u, m, r)
    \/ \E c \in Channels, s \in Users, r \in Receivers, a \in TipAmounts :
          OnTip(c, s, r, a)

CreateRaceSpec == CreateRaceInit /\ [][CreateRaceNext]_vars

(* the bot in two channels: giveaways are created, tipped, reacted to,     *)
(* re-capped and ended in each of them                                     *)
TwoChannels == {"c1", "c2"}

TwoChannelsNext ==
    \/ \E c \in TwoChannels, u \in Actors :
          CreateGiveaway(c, u, "100 USDC", <<"1", "m">>)
    \/ \E h \in inflight, ok \in BOOLEAN : AnnouncementSent(h, ok)
    \/ \E c \in TwoChannels, u \in Actors : GiveawayEnd(c, u, TRUE)
    \/ \E h \in inflight, ok \in BOOLEAN : EndAnnounced(h, ok)
    \/ \E f \in FeeArgs : SetTipFee(TRUE, f)
    \/ \E c \in TwoChannels, k \in CapArgs : SetCap(c, TRUE, k)
    \/ \E c \in TwoChannels, u \in Users, m \in ReactedIds, r \in Reactions :
          OnReaction(c, u, m, r)
    \/ \E c \in TwoChannels, s \in Users, r \in Receivers, a \in TipAmounts :
          OnTip(c, s, r, a)

TwoChannelsSpec == Init /\ [][TwoChannelsNext]_vars

(* setInterval keeps calling the sweep every 60 seconds *)
LiveSpec == Init /\ [][Next]_vars /\ WF_vars(Sweep)

(* every send a giveaway-end awaits completes or throws *)
EndLiveSpec ==
    Init /\ [][Next]_vars
         /\ WF_vars(\E h \in inflight, ok \in BOOLEAN : EndAnnounced(h, ok))

(* ======================================================================= *)
(*                               Properties                                *)
(* ======================================================================= *)
Registered == DOMAIN activeGiveaways
tipsOf(giveaway, p) == MapGet(giveaway.tipEntries, p, 0)
Unexpired(giveaway) == giveaway.isActive /\ ~(now > giveaway.endTime)

(* C1: in every reachable state, for every registered giveaway and every   *)
(* participant p, 0 <= tipEntries[p] <= tipEntryCap.                       *)
C1_TipEntriesWithinCap ==
    \A c \in Registered : \A p \in DOMAIN activeGiveaways[c].tipEntries :
        /\ 0 <= activeGiveaways[c].tipEntries[p]
        /\ activeGiveaways[c].tipEntries[p] <= activeGiveaways[c].tipEntryCap

(* C2: every tip delivered in a reachable state returns a granted count    *)
(* g >= 0 with g + (tipEntries[p] before) <= tipEntryCap, and tipEntries[p] *)
(* after the tip is not smaller than before.                               *)
C2_CreditTipWithinCap ==
    \A c \in Registered, p \in Users, amount \in TipAmounts :
        LET r == onTip(activeGiveaways, c, p, BotId, amount, now)
            before == tipsOf(activeGiveaways[c], p)
        IN  /\ r.entriesAdded >= 0
            /\ r.entriesAdded + before <= activeGiveaways[c].tipEntryCap
            /\ tipsOf(r.reg[c], p) >= before

(* C3: on an Active, unexpired giveaway a tip worth potentialEntries =     *)
(* floor(amount / tipEntryFee) >= 1 (which has a value when the fee is not  *)
(* zero) grants min(potentialEntries, tipEntryCap - tipEntries[p]) when that     *)
(* remaining cap is positive and 0 otherwise, adds exactly the granted     *)
(* number to tipEntries[p] and returns it.                                 *)
C3_CreditTipGrantsMin ==
    \A c \in Registered, p \in Users, amount \in TipAmounts :
        LET giveaway == activeGiveaways[c]
            r == onTip(activeGiveaways, c, p, BotId, amount, now)
            potential == amount \div giveaway.tipEntryFee
            remaining == giveaway.tipEntryCap - tipsOf(giveaway, p)
            granted == IF remaining <= 0 THEN 0
                       ELSE IF potential <= remaining THEN potential
                       ELSE remaining
        IN  (Unexpired(giveaway) /\ giveaway.tipEntryFee > 0 /\ potential >= 1) =>
                /\ r.entriesAdded = granted
                /\ tipsOf(r.reg[c], p) = tipsOf(giveaway, p) + granted
                /\ r.reg[c].reactionEntries = giveaway.reactionEntries
                /\ \A q \in Users \ {p} :
                      MapHas(r.reg[c].tipEntries, q) = MapHas(giveaway.tipEntries, q)
                      /\ tipsOf(r.reg[c], q) = tipsOf(giveaway, q)

(* a tip worth 15 entries was capped at the default cap of 10 *)
C3_Witness ==
    \E c \in Registered, p \in Users :
        /\ activeGiveaways[c].tipEntryCap = DefaultCap
        /\ activeGiveaways[c].tipEntryFee = 166
        /\ tipsOf(activeGiveaways[c], p) = DefaultCap

(* C4: a tip strictly below tipEntryFee grants 0 entries and leaves both   *)
(* ledger mappings unchanged (the sender does not become a participant);   *)
(* a tip of exactly tipEntryFee (a tip transfers a positive amount) on an  *)
(* Active, unexpired giveaway from a participant with remaining cap grants *)
(* exactly 1 entry.                                                        *)
C4_FeeThreshold ==
    \A c \in Registered, p \in Users :
        LET giveaway == activeGiveaways[c]
            exact == onTip(activeGiveaways, c, p, BotId, giveaway.tipEntryFee, now)
        IN  /\ \A amount \in 0 .. (giveaway.tipEntryFee - 1) :
                  LET r == onTip(activeGiveaways, c, p, BotId, amount, now)
                  IN  /\ r.entriesAdded = 0
                      /\ r.reg[c].tipEntries = giveaway.tipEntries
                      /\ r.reg[c].reactionEntries = giveaway.reactionEntries
            /\ (Unexpired(giveaway)
                  /\ giveaway.tipEntryFee > 0
                  /\ giveaway.tipEntryCap - tipsOf(giveaway, p) > 0) =>
                  /\ exact.entriesAdded = 1
                  /\ tipsOf(exact.reg[c], p) = tipsOf(giveaway, p) + 1

(* with the default cap and the default fee only a tip of exactly the fee  *)
(* leaves a participant with one tip entry                                 *)
C4_Witness ==
    \E c \in Registered, p \in Users :
        /\ activeGiveaways[c].tipEntryCap = DefaultCap
        /\ activeGiveaways[c].tipEntryFee = 166
        /\ tipsOf(activeGiveaways[c], p) = 1

(* C5: while a giveaway's isActive is false, every reaction event and      *)
(* every tip event on its channel leaves reactionEntries and tipEntries    *)
(* unchanged, and the tip path grants 0.                                   *)
C5_InactiveLedgerFrozen ==
    \A c \in Registered :
        ~activeGiveaways[c].isActive =>
            /\ \A u \in Users, m \in ReactedIds, e \in Reactions :
                  LET r == onReaction(activeGiveaways, c, u, m, e, now)
                  IN  /\ r.reg[c].reactionEntries = activeGiveaways[c].reactionEntries
                      /\ r.reg[c].tipEntries = activeGiveaways[c].tipEntries
            /\ \A p \in Users, to \in Receivers, amount \in TipAmounts :
                  LET r == onTip(activeGiveaways, c, p, to, amount, now)
                  IN  /\ r.entriesAdded = 0
                      /\ r.reg[c].reactionEntries = activeGiveaways[c].reactionEntries
                      /\ r.reg[c].tipEntries = activeGiveaways[c].tipEntries

(* an inactive giveaway whose announcement can be reacted to, which still  *)
(* has room under the cap and already holds entries                        *)
C5_Witness ==
    \E c \in Registered, p \in Users :
        /\ ~activeGiveaways[c].isActive
        /\ activeGiveaways[c].announcementMessageId = Announcement
        /\ allUsers(activeGiveaways[c]) # {}
        /\ tipsOf(activeGiveaways[c], p) < activeGiveaways[c].tipEntryCap

(* C6: in every reachable state each participant's reactionEntries count   *)
(* is at most 1.                                                           *)
C6_OneReactionEntry ==
    \A c \in Registered : \A p \in DOMAIN activeGiveaways[c].reactionEntries :
        activeGiveaways[c].reactionEntries[p] <= 1

(* The replies that register a giveaway when the channel holds no record,  *)
(* under the pricing of the current state: the create calls that pass      *)
(* parsing, validation and the fee conversion.                             *)
CreateCalls(fee, price, t) ==
    {m \in Messages :
        onMessageResult(EmptyMap, "c1", m, TRUE, fee, price, t).code = "Created"}

createNow(c, m) ==
    onMessageResult(activeGiveaways, c, m, TRUE, globalTipEntryFeeUsd,
                    ethPriceUsd, now)

(* C7: create on a channel that already holds a record fails with          *)
(* AlreadyActive whether the record is Active or Expired, and leaves the   *)
(* record and its entries unchanged.                                       *)
C7_CreateBlockedByAnyRecord ==
    \A c \in Registered :
        \A m \in CreateCalls(globalTipEntryFeeUsd, ethPriceUsd, now) :
            /\ createNow(c, m).code = "AlreadyActive"
            /\ createNow(c, m).reg = activeGiveaways

(* C8: create on a channel with an Active giveaway fails with              *)
(* AlreadyActive and leaves that giveaway unchanged; an accepted end       *)
(* leaves the channel without an Active giveaway, and from then on the     *)
(* same create call registers a fresh Active giveaway with empty ledgers.  *)
C8_ActiveBlocksCreate ==
    \A c \in Registered :
        activeGiveaways[c].isActive =>
            \A m \in CreateCalls(globalTipEntryFeeUsd, ethPriceUsd, now) :
                /\ createNow(c, m).code = "AlreadyActive"
                /\ createNow(c, m).reg = activeGiveaways

C8_CreateAfterEnd ==
    \A c \in Channels :
        (c \notin Registered \/ ~activeGiveaways[c].isActive) =>
            \A m \in CreateCalls(globalTipEntryFeeUsd, ethPriceUsd, now) :
                /\ createNow(c, m).code = "Created"
                /\ createNow(c, m).reg[c].isActive
                /\ createNow(c, m).reg[c].prize = m.prize
                /\ createNow(c, m).reg[c].startTime = now
                /\ createNow(c, m).reg[c].tipEntries = EmptyMap
                /\ createNow(c, m).reg[c].reactionEntries = EmptyMap
                /\ createNow(c, m).reg[c].announcementMessageId = NoMessage

C8_EndDeactivates ==
    \A c \in Channels, u \in Actors :
        (GiveawayEnd(c, u, TRUE) /\ c \in Registered /\ activeGiveaways[c].isActive)
            => (c \notin DOMAIN activeGiveaways' \/ ~activeGiveaways'[c].isActive)

C8_CreateEndCreate ==
    /\ [](C8_ActiveBlocksCreate /\ C8_CreateAfterEnd)
    /\ [][C8_EndDeactivates]_vars

(* an end has been accepted on a giveaway that holds entries: its winner   *)
(* announcement is being sent and the giveaway is no longer Active         *)
C8_Witness ==
    \E h \in inflight :
        /\ h.kind = "end"
        /\ h.channelId \in Registered
        /\ ~activeGiveaways[h.channelId].isActive
        /\ CreateCalls(globalTipEntryFeeUsd, ethPriceUsd, now) # {}

(* C9: end on a channel whose record is Active or Expired is accepted      *)
(* (draws and removes); it fails with NoActiveGiveaway only when no record *)
(* exists.                                                                 *)
C9_EndAcceptsExpired ==
    \A c \in Channels :
        giveawayEndCode(activeGiveaways, c, TRUE) = "NoActiveGiveaway"
            <=> c \notin Registered

(* C10: end on a giveaway with zero participants removes the record from   *)
(* the registry (the channel becomes Absent).                              *)
C10_EndWithoutEntriesRemoves ==
    [][\A c \in Channels, u \in Actors :
          (/\ GiveawayEnd(c, u, TRUE)
           /\ c \in Registered
           /\ activeGiveaways[c].isActive
           /\ allUsers(activeGiveaways[c]) = {})
              => c \notin DOMAIN activeGiveaways']_vars

(* the record g2 is the record g, possibly with more entries, a new cap,   *)
(* an announcement id or a cleared isActive flag                           *)
SameRecord(g, g2) ==
    /\ g2.prize = g.prize
    /\ g2.startTime = g.startTime
    /\ g2.endTime = g.endTime
    /\ g2.tipEntryFee = g.tipEntryFee
    /\ g2.isActive => g.isActive
    /\ \A p \in DOMAIN g.reactionEntries :
          MapHas(g2.reactionEntries, p) /\ g2.reactionEntries[p] >= g.reactionEntries[p]
    /\ \A p \in DOMAIN g.tipEntries :
          MapHas(g2.tipEntries, p) /\ g2.tipEntries[p] >= g.tipEntries[p]

(* C11: a registered record leaves the registry only through a successful  *)
(* end on its own channel; every other step (create, sweep, reaction, tip, *)
(* setters) keeps each registered record in place, with its entries.       *)
C11_RecordLeavesOnlyByEnd ==
    [][\A c \in Registered :
          \/ \E h \in inflight :
                h.kind = "end" /\ h.channelId = c /\ EndAnnounced(h, TRUE)
          \/ /\ c \in DOMAIN activeGiveaways'
             /\ SameRecord(activeGiveaways[c], activeGiveaways'[c])]_vars

(* C12: selectWinner returns none if and only if the participant set is    *)
(* empty; otherwise every value it can return is a participant of the      *)
(* ledger whose total entries are greater than 0.                          *)
C12_SelectWinnerNoneIffEmpty ==
    \A c \in Registered :
        LET giveaway == activeGiveaways[c]
        IN  /\ (NoWinner \in selectWinner(giveaway)) <=> (allUsers(giveaway) = {})
            /\ allUsers(giveaway) # {} =>
                  \A w \in selectWinner(giveaway) :
                      /\ w \in (DOMAIN giveaway.reactionEntries)
                                 \cup (DOMAIN giveaway.tipEntries)
                      /\ MapGet(giveaway.reactionEntries, w, 0)
                            + MapGet(giveaway.tipEntries, w, 0) > 0

(* a winner was drawn from a ledger with one participant, the other user   *)
(* of the channel holding no entry                                         *)
C12_Witness ==
    \E h \in inflight :
        /\ h.kind = "end"
        /\ h.result.winner \in Users
        /\ h.result.participants = 1

RECURSIVE SumTotals(_, _)
(* sum of reactionEntries[p] + tipEntries[p] over the participants in S *)
SumTotals(giveaway, S) ==
    IF S = {} THEN 0
    ELSE LET p == CHOOSE q \in S : TRUE
         IN  MapGet(giveaway.reactionEntries, p, 0)
               + MapGet(giveaway.tipEntries, p, 0)
               + SumTotals(giveaway, S \ {p})

Participants(giveaway) ==
    (DOMAIN giveaway.reactionEntries) \cup (DOMAIN giveaway.tipEntries)

(* C13: the weighted pool holds each participant exactly                   *)
(* reactionEntries[p] + tipEntries[p] times and nobody else, its size is   *)
(* the sum of the participants' total entries, and the draw returns the    *)
(* pool's element at an index of [0, poolSize).                            *)
C13_PoolWeights ==
    \A c \in Registered :
        LET giveaway == activeGiveaways[c]
            pool == weightedEntries(giveaway)
        IN  /\ \A p \in Users :
                  Cardinality({i \in 1 .. Len(pool) : pool[i] = p}) =
                      IF p \in Participants(giveaway)
                      THEN MapGet(giveaway.reactionEntries, p, 0)
                             + MapGet(giveaway.tipEntries, p, 0)
                      ELSE 0
            /\ \A i \in 1 .. Len(pool) : pool[i] \in Users
            /\ Len(pool) = SumTotals(giveaway, Participants(giveaway))
            /\ Len(pool) > 0 =>
                  selectWinner(giveaway) = {pool[i + 1] : i \in 0 .. (Len(pool) - 1)}

(* two participants with different weights: one holds tip entries up to    *)
(* the default cap, the other a single entry                               *)
C13_Witness ==
    \E c \in Registered :
        /\ Cardinality(Participants(activeGiveaways[c])) = 2
        /\ Len(weightedEntries(activeGiveaways[c])) = DefaultCap + 1

(* C14: when end draws a winner, the result it reports has winnerEntries = *)
(* the winner's total entries >= 1, totalEntries = the sum of all          *)
(* participants' totals, participantCount = the number of participants,    *)
(* and winnerEntries <= totalEntries, all taken from the ledger as it      *)
(* stood when end marked the giveaway inactive.                            *)
C14_EndReportsLedger ==
    [][\A c \in Channels, u \in Actors :
          (GiveawayEnd(c, u, TRUE) /\ c \in Registered /\ activeGiveaways[c].isActive)
             => \A h \in inflight' \ inflight :
                   LET giveaway == activeGiveaways[c]
                       total(p) == MapGet(giveaway.reactionEntries, p, 0)
                                     + MapGet(giveaway.tipEntries, p, 0)
                   IN  /\ h.kind = "end"
                       /\ h.result.winner \in Participants(giveaway)
                       /\ h.result.winnerEntries = total(h.result.winner)
                       /\ h.result.winnerEntries >= 1
                       /\ h.result.totalEntries =
                              SumTotals(giveaway, Participants(giveaway))
                       /\ h.result.participants =
                              Cardinality(Participants(giveaway))
                       /\ h.result.winnerEntries <= h.result.totalEntries
                       /\ ~activeGiveaways'[c].isActive
                       /\ activeGiveaways'[c].reactionEntries = giveaway.reactionEntries
                       /\ activeGiveaways'[c].tipEntries = giveaway.tipEntries]_vars

(* a winner with several entries was drawn among two participants *)
C14_Witness ==
    \E h \in inflight :
        /\ h.kind = "end"
        /\ h.result.participants = 2
        /\ h.result.winnerEntries >= 2
        /\ h.result.winnerEntries < h.result.totalEntries

(* C15: no entry is credited later than endTime: on an Active giveaway     *)
(* with now > endTime every reaction and every tip leaves both ledger      *)
(* mappings unchanged, and the events that reach the crediting code (a     *)
(* gift reaction to the announcement, a tip to the bot) set isActive to    *)
(* false, whether or not the sweep has run.                                *)
C15_NoCreditAfterEndTime ==
    \A c \in Registered :
        LET giveaway == activeGiveaways[c]
        IN  (giveaway.isActive /\ now > giveaway.endTime) =>
              /\ \A u \in Users, m \in ReactedIds, e \in Reactions :
                    LET r == onReaction(activeGiveaways, c, u, m, e, now)
                    IN  /\ r.reg[c].reactionEntries = giveaway.reactionEntries
                        /\ r.reg[c].tipEntries = giveaway.tipEntries
                        /\ (e = Gift /\ m = giveaway.announcementMessageId)
                              => ~r.reg[c].isActive
              /\ \A p \in Users, to \in Receivers, amount \in TipAmounts :
                    LET r == onTip(activeGiveaways, c, p, to, amount, now)
                    IN  /\ r.entriesAdded = 0
                        /\ r.reg[c].reactionEntries = giveaway.reactionEntries
                        /\ r.reg[c].tipEntries = giveaway.tipEntries
                        /\ to = BotId => ~r.reg[c].isActive

(* past endTime the giveaway is still Active (no sweep, no event yet) and  *)
(* its announcement can be reacted to                                      *)
C15_Witness ==
    \E c \in Registered :
        /\ activeGiveaways[c].isActive
        /\ now > activeGiveaways[c].endTime
        /\ activeGiveaways[c].announcementMessageId = Announcement
        /\ activeGiveaways[c].tipEntryFee > 0
        /\ credits < MaxCredits

(* C16: the sweep changes only the isActive flag, and only of giveaways    *)
(* that are Active with now > endTime: it removes no record, changes no    *)
(* ledger mapping, fee, cap, or announcement id, and leaves Active         *)
(* giveaways with now <= endTime untouched.                                *)
C16_SweepResult ==
    LET swept == sweep(activeGiveaways, now)
    IN  /\ DOMAIN swept = Registered
        /\ \A c \in Registered :
              LET giveaway == activeGiveaways[c]
              IN  /\ swept[c].prize = giveaway.prize
                  /\ swept[c].startTime = giveaway.startTime
                  /\ swept[c].endTime = giveaway.endTime
                  /\ swept[c].tipEntryFee = giveaway.tipEntryFee
                  /\ swept[c].tipEntryCap = giveaway.tipEntryCap
                  /\ swept[c].tipEntries = giveaway.tipEntries
                  /\ swept[c].reactionEntries = giveaway.reactionEntries
                  /\ swept[c].announcementMessageId = giveaway.announcementMessageId
                  /\ swept[c].isActive =
                        (giveaway.isActive /\ ~(now > giveaway.endTime))

C16_SweepFrame ==
    Sweep => /\ activeGiveaways' = sweep(activeGiveaways, now)
             /\ UNCHANGED <<giveawayCreationState, ethPriceUsd,
                            globalTipEntryFeeUsd, now, inflight>>

C16_SweepOnlyFlags == []C16_SweepResult /\ [][C16_SweepFrame]_vars

(* an Active giveaway past its endTime that holds entries, before any      *)
(* sweep or event has marked it                                            *)
C16_Witness ==
    \E c \in Registered :
        /\ activeGiveaways[c].isActive
        /\ now > activeGiveaways[c].endTime
        /\ Participants(activeGiveaways[c]) # {}

(* C17: giveaways expire automatically: once time is past endTime and the  *)
(* timer keeps firing, every Active giveaway eventually has isActive =     *)
(* false (or is gone), without any admin, reaction or tip event: the only  *)
(* fairness assumed is on the sweep.                                       *)
C17_ExpiresAutomatically ==
    \A c \in Channels :
        (c \in Registered /\ activeGiveaways[c].isActive
            /\ now > activeGiveaways[c].endTime)
          ~> (c \notin Registered \/ ~activeGiveaways[c].isActive)

(* a giveaway with entries and a posted announcement is past its endTime   *)
(* and inactive, with no handler in flight                                 *)
C17_Witness ==
    \E c \in Registered :
        /\ ~activeGiveaways[c].isActive
        /\ now > activeGiveaways[c].endTime
        /\ activeGiveaways[c].announcementMessageId = Announcement
        /\ Participants(activeGiveaways[c]) # {}
        /\ inflight = {}

(* C18: every registered giveaway satisfies endTime > startTime, for every *)
(* duration string that create accepts.                                    *)
C18_EndAfterStart ==
    \A c \in Registered :
        activeGiveaways[c].endTime > activeGiveaways[c].startTime

(* C19: in every reachable state every registered giveaway has             *)
(* tipEntryFee > 0, so the tip handler's division amount / tipEntryFee     *)
(* never divides by zero.                                                  *)
C19_FeePositive ==
    \A c \in Registered :
        /\ activeGiveaways[c].tipEntryFee > 0
        /\ \A p \in Users, amount \in TipAmounts :
              onTip(activeGiveaways, c, p, BotId, amount, now).code # "Threw"

UnitMinutes(u) ==
    CASE u \in {"m", "M"} -> 1
      [] u \in {"h", "H"} -> 60
      [] u \in {"d", "D"} -> 24 * 60

DecimalDigit ==
    ("0" :> 0) @@ ("1" :> 1) @@ ("2" :> 2) @@ ("3" :> 3) @@ ("4" :> 4)
        @@ ("5" :> 5) @@ ("6" :> 6) @@ ("7" :> 7) @@ ("8" :> 8) @@ ("9" :> 9)

RECURSIVE Decimal(_)
(* the integer a sequence of decimal digits denotes *)
Decimal(ds) ==
    IF ds = <<>> THEN 0
    ELSE Decimal(SubSeq(ds, 1, Len(ds) - 1)) * 10 + DecimalDigit[ds[Len(ds)]]

(* <integer><unit> with unit in {m,h,d}, in either case *)
IsDuration(s) ==
    /\ Len(s) >= 2
    /\ \A i \in 1 .. (Len(s) - 1) : s[i] \in DOMAIN DecimalDigit
    /\ s[Len(s)] \in {"m", "h", "d", "M", "H", "D"}

createWith(c, s) ==
    createGiveaway(activeGiveaways, c, "100 USDC", s, DefaultCap,
                   globalTipEntryFeeUsd, ethPriceUsd, now)

(* C20: create accepts exactly the duration strings <integer><unit> with   *)
(* unit in {m,h,d}, case-insensitively, and sets endTime = startTime + n   *)
(* minutes, n hours or n*24 hours ("24h" gives +24h, "2d" gives +48h); any *)
(* other string ("x", "24", "1w", "1.5h") is rejected as InvalidDuration   *)
(* and no giveaway is registered.                                          *)
C20_DurationGrammar ==
    \A c \in Channels :
        /\ \A s \in DurationStrings :
              /\ (createWith(c, s).code = "InvalidDuration") <=> ~IsDuration(s)
              /\ createWith(c, s).code = "InvalidDuration"
                    => createWith(c, s).reg = activeGiveaways
              /\ createWith(c, s).code = "Created" =>
                    /\ createWith(c, s).reg[c].startTime = now
                    /\ createWith(c, s).reg[c].endTime =
                          now + Decimal(SubSeq(s, 1, Len(s) - 1))
                                  * UnitMinutes(s[Len(s)])
        /\ (c \notin Registered \/ ~activeGiveaways[c].isActive) =>
              /\ createWith(c, <<"2", "4", "h">>).code = "Created"
              /\ createWith(c, <<"2", "4", "h">>).reg[c].endTime = now + 24 * 60
              /\ createWith(c, <<"2", "d">>).code = "Created"
              /\ createWith(c, <<"2", "d">>).reg[c].endTime = now + 48 * 60
        /\ \A s \in {<<"x">>, <<"2", "4">>, <<"1", "w">>, <<"1", ".", "5", "h">>} :
              createWith(c, s).code = "InvalidDuration"

(* a giveaway created from "2D" is registered, ending 48 hours after its   *)
(* start                                                                   *)
C20_Witness ==
    \E c \in Registered :
        activeGiveaways[c].endTime = activeGiveaways[c].startTime + 2 * 24 * 60

(* C21: the global rate and the global default fee are frozen into a       *)
(* giveaway's tipEntryFee at creation: a set-eth-price or a set-tip-fee    *)
(* leaves the tipEntryFee of every registered giveaway unchanged, and with *)
(* it the entries a given token amount is worth.                           *)
C21_FeeFrozenAtCreation ==
    [][\/ UNCHANGED <<activeGiveaways, now>>
        \/ /\ \A a \in BOOLEAN, f \in FeeArgs : ~SetTipFee(a, f)
           /\ \A a \in BOOLEAN, k \in PriceArgs : ~SetEthPrice(a, k)
        \/ \A c \in Registered :
             /\ c \in DOMAIN activeGiveaways'
             /\ activeGiveaways'[c].tipEntryFee = activeGiveaways[c].tipEntryFee
             /\ \A p \in Users, amount \in TipAmounts :
                   onTip(activeGiveaways', c, p, BotId, amount, now').entriesAdded
                     = onTip(activeGiveaways, c, p, BotId, amount, now).entriesAdded]_vars

(* a giveaway priced at the initial fee and rate is Active while both      *)
(* globals hold other values                                               *)
C21_Witness ==
    \E c \in Registered :
        /\ activeGiveaways[c].isActive
        /\ activeGiveaways[c].tipEntryFee = 166
        /\ globalTipEntryFeeUsd = 1
        /\ ethPriceUsd = 2000000

(* C22: an accepted set-fee while a giveaway is Active on the channel      *)
(* changes that giveaway's tipEntryFee to the new fee (so later tips are   *)
(* converted at it), and leaves the credited entries, the cap and the      *)
(* lifecycle state unchanged.                                              *)
C22_SetFeeUpdatesActive ==
    [][\A f \in FeeArgs :
          (/\ SetTipFee(TRUE, f)
           /\ ~isNaN(parseFloat(f)) /\ parseFloat(f) > 0
           /\ ~usdToWeiThrows(parseFloat(f), ethPriceUsd))
             => \A c \in Registered :
                   activeGiveaways[c].isActive =>
                      /\ activeGiveaways'[c].tipEntryFee =
                             usdToWei(parseFloat(f), ethPriceUsd)
                      /\ activeGiveaways'[c].tipEntries = activeGiveaways[c].tipEntries
                      /\ activeGiveaways'[c].reactionEntries =
                             activeGiveaways[c].reactionEntries
                      /\ activeGiveaways'[c].tipEntryCap = activeGiveaways[c].tipEntryCap
                      /\ activeGiveaways'[c].isActive]_vars

(* C23: set-cap succeeds on a record in Expired state (isActive = false,   *)
(* still registered) as on an Active one, fails with NoActiveGiveaway only *)
(* when the channel has no record, and never changes isActive or removes   *)
(* the record.                                                             *)
C23_SetterOnExpired ==
    \A c \in Channels, k \in CapArgs :
        (~isNaN(parseInt(k)) /\ parseInt(k) > 0) =>
            /\ (setCapCode(activeGiveaways, c, TRUE, k) = "NoActiveGiveaway")
                  <=> (c \notin Registered)
            /\ c \in Registered =>
                  setCapCode(activeGiveaways, c, TRUE, k) = "Updated"

(* a step of a mutating admin operation whose actor is not an admin *)
NonAdminStep ==
    \/ \E c \in Channels, u \in Actors : GiveawayCreate(c, u, FALSE)
    \/ \E h \in inflight : OnMessageResume(h, FALSE)
    \/ \E c \in Channels, u \in Actors : GiveawayEnd(c, u, FALSE)
    \/ \E f \in FeeArgs : SetTipFee(FALSE, f)
    \/ \E c \in Channels, k \in CapArgs : SetCap(c, FALSE, k)
    \/ \E k \in PriceArgs : SetEthPrice(FALSE, k)

(* C24 as stated: every mutating admin operation (create, end, set-fee,    *)
(* set-cap, set-rate) invoked by an actor who is not an admin leaves the   *)
(* registry, all ledgers, the pending-creation state and the global        *)
(* pricing state unchanged.                                                *)
C24_NonAdminChangesNothing ==
    [][NonAdminStep =>
          UNCHANGED <<activeGiveaways, giveawayCreationState, ethPriceUsd,
                      globalTipEntryFeeUsd>>]_vars

(* every handler answers a non-admin with NotAuthorized and computes no    *)
(* new registry, fee, cap or price                                         *)
C24_NonAdminRejected ==
    /\ \A c \in Channels :
          /\ giveawayCreateCode(activeGiveaways, c, FALSE) = "NotAuthorized"
          /\ giveawayEndCode(activeGiveaways, c, FALSE) = "NotAuthorized"
          /\ \A k \in CapArgs :
                setCapCode(activeGiveaways, c, FALSE, k) = "NotAuthorized"
          /\ \A m \in Messages :
                LET r == onMessageResult(activeGiveaways, c, m, FALSE,
                                         globalTipEntryFeeUsd, ethPriceUsd, now)
                IN  r.code = "NotAuthorized" /\ r.reg = activeGiveaways
    /\ \A f \in FeeArgs :
          setTipFee(globalTipEntryFeeUsd, FALSE, f) = globalTipEntryFeeUsd
    /\ \A k \in PriceArgs : setEthPrice(ethPriceUsd, FALSE, k) = ethPriceUsd

C24_NonAdminFrame ==
    \/ UNCHANGED <<activeGiveaways, giveawayCreationState, ethPriceUsd,
                   globalTipEntryFeeUsd>>
    \/ ~NonAdminStep
    \/ /\ UNCHANGED <<activeGiveaways, ethPriceUsd, globalTipEntryFeeUsd>>
       /\ \E h \in inflight :
             /\ h.kind = "reply"
             /\ OnMessageResume(h, FALSE)
             /\ giveawayCreationState' =
                    MapDelete(giveawayCreationState, h.userId)

(* C24, amended: a mutating admin operation invoked by a non-admin leaves  *)
(* the registry, all ledgers and the global pricing state unchanged, and   *)
(* leaves the pending-creation state unchanged except that a non-admin's   *)
(* reply to a creation template removes that user's own pending entry;     *)
(* status takes no admin check.                                            *)
C24_NonAdminAmended == []C24_NonAdminRejected /\ [][C24_NonAdminFrame]_vars

(* a reply to the creation template is waiting for its admin check while   *)
(* the channel holds a record and the user's pending creation is stored    *)
C24_Witness ==
    \E h \in inflight :
        /\ h.kind = "reply"
        /\ MapHas(giveawayCreationState, h.userId)
        /\ h.channelId \in Registered

(* C25: a reaction whose messageId differs from the giveaway's             *)
(* announcement id, or whose symbol is not the gift, leaves both ledger    *)
(* mappings of the giveaway unchanged; a reaction that adds an entry is a  *)
(* gift reaction to the announcement message, and it adds to               *)
(* reactionEntries only.                                                   *)
C25_OnlyAnnouncementReactions ==
    \A c \in Registered, u \in Users, m \in ReactedIds, e \in Reactions :
        LET giveaway == activeGiveaways[c]
            r == onReaction(activeGiveaways, c, u, m, e, now)
        IN  /\ (m # giveaway.announcementMessageId \/ e # Gift) =>
                  /\ r.reg[c].reactionEntries = giveaway.reactionEntries
                  /\ r.reg[c].tipEntries = giveaway.tipEntries
                  /\ r.code = "Ignored"
            /\ r.reg[c].tipEntries = giveaway.tipEntries
            /\ r.reg[c].reactionEntries # giveaway.reactionEntries =>
                  (m = giveaway.announcementMessageId /\ e = Gift)

(* an Active, unexpired giveaway whose announcement is posted, on which a  *)
(* reaction to another message arrives after a first entry was credited    *)
C25_Witness ==
    \E c \in Registered :
        /\ Unexpired(activeGiveaways[c])
        /\ activeGiveaways[c].announcementMessageId = Announcement
        /\ DOMAIN activeGiveaways[c].reactionEntries # {}
        /\ credits < MaxCredits

(* C26: status fails with NoActiveGiveaway only when the channel has no    *)
(* record: for a record in Active or Expired state it returns the          *)
(* snapshot; in every case it leaves all giveaway and global state         *)
(* unchanged.                                                              *)
C26_StatusOnExpired ==
    \A c \in Channels :
        /\ (giveawayStatus(activeGiveaways, c) = "NoActiveGiveaway")
              <=> (c \notin Registered)
        /\ c \in Registered => giveawayStatus(activeGiveaways, c) = "Status"

C28_TipsSerialized ==
    \A c \in Registered, p \in Users, amount \in TipAmounts :
        LET giveaway == activeGiveaways[c]
            r == onTip(activeGiveaways, c, p, BotId, amount, now)
        IN  /\ tipsOf(r.reg[c], p) = tipsOf(giveaway, p) + r.entriesAdded
            /\ tipsOf(giveaway, p) <= giveaway.tipEntryCap
                  => tipsOf(r.reg[c], p) <= r.reg[c].tipEntryCap
            /\ \A q \in Users \ {p} : tipsOf(r.reg[c], q) = tipsOf(giveaway, q)

(* two tips of one entry each from the same participant were credited one  *)
(* after the other on a giveaway with the default cap and fee              *)
C28_Witness ==
    \E c \in Registered, p \in Users :
        /\ activeGiveaways[c].tipEntryCap = DefaultCap
        /\ activeGiveaways[c].tipEntryFee = 166
        /\ tipsOf(activeGiveaways[c], p) = 2
        /\ credits = 2

(* C29: the documented direct create with trailing options,                *)
(* /giveaway create <prize> <duration> fee:<f> cap:<c> (for example        *)
(* "1 ETH 7d fee:1.00 cap:20"), registers a giveaway whose prize is        *)
(* <prize>, whose duration is <duration>, whose fee is f and whose cap is  *)
(* c.                                                                      *)
C29_DirectCreateWithOptions ==
    \A c \in Channels, p \in DirectPrizes :
        (c \notin Registered \/ ~activeGiveaways[c].isActive) =>
            LET args == <<CreateWord>> \o p \o <<<<"7", "d">>, FeeOption, CapOption>>
                r == giveawayDirect(activeGiveaways, c, TRUE, args, ethPriceUsd, now)
            IN  /\ r.code = "Created"
                /\ r.reg[c].prize = p
                /\ r.reg[c].endTime = now + 7 * 24 * 60
                /\ r.reg[c].tipEntryFee = (100 * WeiPerEth) \div ethPriceUsd
                /\ r.reg[c].tipEntryCap = 20

(* C30: the winner is drawn with probability proportional to entry count.  *)
(* The draw returns the pool's element at floor(Math.random() * poolSize), *)
(* every index being equally likely, so participant p wins with            *)
(* probability (number of indices holding p) / poolSize, and this is       *)
(* totalEntries(p) / (sum of totalEntries): 9 of 10 for A on {A: 9, B: 1}. *)
C30_WinProbability ==
    \A c \in Registered :
        LET giveaway == activeGiveaways[c]
            pool == weightedEntries(giveaway)
            poolSize == Len(pool)
            wins(p) == Cardinality({i \in 0 .. (poolSize - 1) : pool[i + 1] = p})
            total(p) == MapGet(giveaway.reactionEntries, p, 0)
                          + MapGet(giveaway.tipEntries, p, 0)
            sum == SumTotals(giveaway, Participants(giveaway))
        IN  Participants(giveaway) # {} =>
              /\ poolSize > 0
              /\ selectWinner(giveaway) = {pool[i + 1] : i \in 0 .. (poolSize - 1)}
              /\ \A p \in Users : wins(p) * sum = total(p) * poolSize
              /\ (total("u1") = 9 /\ total("u2") = 1) =>
                    (wins("u1") * 10 = 9 * poolSize /\ wins("u2") * 10 = poolSize)

(* on a ledger of 9 entries against 1 the draw fell on the participant     *)
(* with the single entry                                                   *)
C30_Witness ==
    \E h \in inflight :
        /\ h.kind = "end"
        /\ h.result.participants = 2
        /\ h.result.winnerEntries = 1
        /\ h.result.totalEntries = 10

(* C31: end removes exactly the giveaway it drew from: the deferred        *)
(* activeGiveaways.delete of a suspended end removes a record that is      *)
(* ended (isActive = false) and holds the entries the end counted, never   *)
(* a giveaway created on the channel while the end was suspended.          *)
C31_EndRemovesOwnGiveaway ==
    [][\A h \in inflight :
          (h.kind = "end" /\ EndAnnounced(h, TRUE)) =>
             /\ h.channelId \in Registered
             /\ ~activeGiveaways[h.channelId].isActive
             /\ sumEntries(activeGiveaways[h.channelId]) = h.result.totalEntries]_vars

(* a record that an end request has marked inactive: it is inactive with   *)
(* an end awaiting its announcement, or inactive before its endTime has    *)
(* passed (neither the sweep nor a lazy expiry check can have done that)   *)
EndAccepted(c) ==
    /\ c \in Registered
    /\ ~activeGiveaways[c].isActive
    /\ \/ ~(now > activeGiveaways[c].endTime)
       \/ \E h \in inflight : h.kind = "end" /\ h.channelId = c

(* C32: once an end request has been accepted and has marked the giveaway  *)
(* inactive, the record is eventually removed from the registry (the       *)
(* channel becomes Absent), with or without a winner and whether or not    *)
(* the winner announcement is sent.                                        *)
C32_EndEventuallyRemoves ==
    \A c \in Channels : EndAccepted(c) ~> (c \notin Registered)

(* tips of a positive amount strictly below the fee, among them amounts    *)
(* of which two together exceed the fee                                    *)
SubFeeAmounts(fee) ==
    {a \in TipAmounts \cup {fee - 1, (fee \div 2) + 1} : 0 < a /\ a < fee}

(* C33: tip excess is forfeited, never carried forward: the entries a tip  *)
(* is granted are min(floor(amount / tipEntryFee), tipEntryCap -           *)
(* tipEntries[p]) (0 when nothing remains) of the tip's own amount and the *)
(* ledger as the previous tip left it, whatever the previous tip's amount  *)
(* was, and up to three tips each strictly below the fee grant 0 entries   *)
(* in total and leave the registry unchanged even when their sum exceeds   *)
(* the fee.                                                                *)
C33_NoCarryForward ==
    \A c \in Registered, p \in Users :
        LET giveaway == activeGiveaways[c]
            fee == giveaway.tipEntryFee
            tip(reg, amount) == onTip(reg, c, p, BotId, amount, now)
            granted(reg, amount) ==
                LET potential == amount \div fee
                    remaining == reg[c].tipEntryCap - tipsOf(reg[c], p)
                IN  IF remaining <= 0 THEN 0
                    ELSE IF potential <= remaining THEN potential
                    ELSE remaining
        IN  (Unexpired(giveaway) /\ fee > 0) =>
              /\ \A a1, a2 \in TipAmounts :
                    tip(tip(activeGiveaways, a1).reg, a2).entriesAdded
                        = granted(tip(activeGiveaways, a1).reg, a2)
              /\ \A a1, a2, a3 \in SubFeeAmounts(fee) :
                    LET r1 == tip(activeGiveaways, a1)
                        r2 == tip(r1.reg, a2)
                        r3 == tip(r2.reg, a3)
                    IN  /\ r1.entriesAdded + r2.entriesAdded + r3.entriesAdded = 0
                        /\ r3.reg = activeGiveaways

(* at a fee of 25 a participant holds 6 tip entries: the tip was of 165 or *)
(* 166, worth 6 entries and an excess of 15 or 16 that a further tip below *)
(* the fee does not turn into an entry                                     *)
C33_Witness ==
    \E c \in Registered, p \in Users :
        /\ Unexpired(activeGiveaways[c])
        /\ activeGiveaways[c].tipEntryFee = 25
        /\ tipsOf(activeGiveaways[c], p) = 6
        /\ onTip(activeGiveaways, c, p, BotId, 24, now).code = "TooSmall"

(* C34: in every reachable state every key of reactionEntries and of       *)
(* tipEntries maps to a count >= 1, so a giveaway with a participant has a *)
(* non-empty pool and selectWinner does not return null for it (its        *)
(* `weightedEntries.length === 0` return after the loop is not taken).     *)
C34_CountsAtLeastOne ==
    \A c \in Registered :
        LET giveaway == activeGiveaways[c]
        IN  /\ \A u \in DOMAIN giveaway.reactionEntries :
                  giveaway.reactionEntries[u] >= 1
            /\ \A u \in DOMAIN giveaway.tipEntries : giveaway.tipEntries[u] >= 1
            /\ allUsers(giveaway) # {} =>
                  /\ Len(weightedEntries(giveaway)) >= 1
                  /\ NoWinner \notin selectWinner(giveaway)

(* a giveaway with a reaction participant and a tip participant has been   *)
(* drawn                                                                   *)
C34_Witness ==
    \E h \in inflight :
        /\ h.kind = "end"
        /\ h.channelId \in Registered
        /\ DOMAIN activeGiveaways[h.channelId].reactionEntries # {}
        /\ DOMAIN activeGiveaways[h.channelId].tipEntries # {}
        /\ h.result.totalEntries >= 2

(* C35: no reaction entry is credited to a giveaway while its              *)
(* announcementMessageId is absent (from createGiveaway's                  *)
(* activeGiveaways.set until the announcement send has completed): in that *)
(* window reactionEntries is empty and a reaction on any message changes   *)
(* no ledger.                                                              *)
C35_NoReactionBeforeAnnouncement ==
    \A c \in Registered :
        LET giveaway == activeGiveaways[c]
        IN  giveaway.announcementMessageId = NoMessage =>
              /\ giveaway.reactionEntries = EmptyMap
              /\ \A u \in Users, m \in ReactedIds, r \in Reactions :
                    LET after == onReaction(activeGiveaways, c, u, m, r, now)
                    IN  /\ after.code # "EntryAdded"
                        /\ after.reg[c].reactionEntries = EmptyMap
                        /\ after.reg[c].tipEntries = giveaway.tipEntries

(* a giveaway whose announcement is still being sent is Active and has     *)
(* already been credited a tip entry                                       *)
C35_Witness ==
    \E h \in inflight :
        /\ h.kind = "announce" /\ h.attached
        /\ h.channelId \in Registered
        /\ activeGiveaways[h.channelId].isActive
        /\ activeGiveaways[h.channelId].announcementMessageId = NoMessage
        /\ DOMAIN activeGiveaways[h.channelId].tipEntries # {}

(* C36: createGiveaway's check for an existing giveaway and its            *)
(* activeGiveaways.set are one step: whichever of two concurrent creation  *)
(* requests resumes while the channel's giveaway is Active is answered     *)
(* AlreadyActive and leaves the registry unchanged, so an Active giveaway  *)
(* is never overwritten by another create and no more than one of the two  *)
(* requests has its giveaway registered and attached at a time.            *)
C36_CreateRaceRejected ==
    \A h \in inflight :
        (/\ h.kind = "reply"
         /\ h.channelId \in Registered
         /\ activeGiveaways[h.channelId].isActive) =>
            \A a \in BOOLEAN :
                LET r == onMessageResult(activeGiveaways, h.channelId, h.msg, a,
                                         globalTipEntryFeeUsd, ethPriceUsd, now)
                IN  r.code # "Created" /\ r.reg = activeGiveaways

C36_CreateRaceFrame ==
    \A c \in Registered :
        activeGiveaways[c].isActive =>
            \/ UNCHANGED activeGiveaways
            \/ \A h \in inflight, a \in BOOLEAN : ~OnMessageResume(h, a)

C36_AtMostOneAttached ==
    \A c \in Channels :
        Cardinality({h \in inflight :
                        h.kind = "announce" /\ h.channelId = c /\ h.attached}) <= 1

FreshRecord(c) ==
    /\ activeGiveaways'[c].startTime = now
    /\ activeGiveaways'[c].tipEntries = EmptyMap
    /\ activeGiveaways'[c].reactionEntries = EmptyMap
    /\ activeGiveaways'[c].announcementMessageId = NoMessage
    /\ \E h \in inflight : h.kind = "reply" /\ OnMessageResume(h, TRUE)

(* an inactive record takes no entry: tips and reactions leave it as it is *)
C37_InactiveRefuses ==
    \A c \in Registered :
        ~activeGiveaways[c].isActive =>
            /\ \A u \in Users, m \in ReactedIds, r \in Reactions :
                  onReaction(activeGiveaways, c, u, m, r, now).reg = activeGiveaways
            /\ \A u \in Users, r \in Receivers, a \in TipAmounts :
                  onTip(activeGiveaways, c, u, r, a, now).reg = activeGiveaways

C37_NoReactivation ==
    \A c \in Registered :
        (~activeGiveaways[c].isActive /\ c \in DOMAIN activeGiveaways') =>
            \/ ~activeGiveaways'[c].isActive
            \/ FreshRecord(c)

(* C37: isActive is monotone per record: once a giveaway record's isActive *)
(* has become false no operation sets it back to true (the channel shows   *)
(* an Active giveaway again only when createGiveaway registers a new       *)
(* record), and an Expired giveaway never accepts entries again.           *)
C37_IsActiveMonotone ==
    /\ []C37_InactiveRefuses
    /\ [][C37_NoReactivation]_vars

(* a giveaway that was ended before its endTime holds a reaction entry and *)
(* ignores a further reaction on its announcement                          *)
C37_Witness ==
    \E c \in Registered :
        /\ ~activeGiveaways[c].isActive
        /\ ~(now > activeGiveaways[c].endTime)
        /\ DOMAIN activeGiveaways[c].reactionEntries # {}
        /\ onReaction(activeGiveaways, c, "u2", Announcement, Gift, now).code = "Ignored"

(* the step is a reaction, tip, create, end, set-cap or set-fee event of   *)
(* channel a, or the resumption of a handler of such an event              *)
AddressedTo(a) ==
    \/ \E u \in Actors : CreateGiveaway(a, u, "100 USDC", <<"1", "m">>)
    \/ \E u \in Actors : GiveawayEnd(a, u, TRUE)
    \/ \E h \in inflight, ok \in BOOLEAN :
          h.channelId = a /\ (AnnouncementSent(h, ok) \/ EndAnnounced(h, ok))
    \/ \E f \in FeeArgs : SetTipFee(TRUE, f)
    \/ \E k \in CapArgs : SetCap(a, TRUE, k)
    \/ \E u \in Users, m \in ReactedIds, r \in Reactions : OnReaction(a, u, m, r)
    \/ \E s \in Users, r \in Receivers, t \in TipAmounts : OnTip(a, s, r, t)

OthersUnchanged(a) ==
    \A b \in TwoChannels \ {a} :
        /\ (b \in Registered) = (b \in DOMAIN activeGiveaways')
        /\ b \in Registered => activeGiveaways'[b] = activeGiveaways[b]

(* C38: channels are isolated: a reaction, tip, create, end, set-cap or    *)
(* set-fee event addressed to channel A leaves the giveaway record of      *)
(* every other channel B (lifecycle state, fee, cap, both ledgers,         *)
(* announcement id) unchanged, and B registered or not as it was.          *)
C38_ChannelsIsolated ==
    [][\A a \in TwoChannels : OthersUnchanged(a) \/ ~AddressedTo(a)]_vars

(* both channels hold an Active giveaway, with different caps and ledgers  *)
C38_Witness ==
    /\ Registered = TwoChannels
    /\ activeGiveaways["c1"].isActive /\ activeGiveaways["c2"].isActive
    /\ activeGiveaways["c1"].tipEntryCap = 1
    /\ activeGiveaways["c2"].tipEntryCap = DefaultCap
    /\ DOMAIN activeGiveaways["c1"].reactionEntries # {}
    /\ DOMAIN activeGiveaways["c2"].tipEntries # {}

=============================================================================
